---- MODULE Spec2Model ----
(***************************************************************************)
(* Model of the Shopify UTM orders dashboard server: UTM extraction, order *)
(* normalisation, REST pagination with a result cap, the order count probe,*)
(* the /api/orders and /api/export.csv handlers and the bulk operation     *)
(* start / status / download handlers.                                     *)
(*                                                                         *)
(* JavaScript values: strings are TLA+ strings; undefined and null are the *)
(* sentinel strings Undef and Null; URL inputs, attribute collections and  *)
(* upstream responses are records.                                         *)
(***************************************************************************)
EXTENDS Integers, Sequences, FiniteSets, TLC

VARIABLES
    order,      \* normaliser input: a raw order (REST or bulk shape)
    row,        \* normaliser output
    npc,        \* which mapping produced row
    pages,      \* upstream: the pages of the orders list endpoint
    countResp,  \* upstream: response of the count endpoint
    req,        \* the request being served: endpoint and parsed query
    rpc,        \* position of the REST handler
    url,        \* fetchAllOrdersREST: page to request next (0 = null)
    mapped,     \* fetchAllOrdersREST: accumulated rows
    reqs,       \* page requests issued so far, in order
    thrown,     \* the Error thrown inside the handler, or NoError
    shopifyTotal, \* /api/orders: result of the count probe
    resp,       \* the response sent to the caller
    job,        \* upstream: currentBulkOperation
    nextId,     \* upstream: id of the next bulk operation
    submits,    \* bulkOperationRunQuery mutations sent to the upstream
    starts,     \* POST /api/bulk/start requests handled
    file,       \* upstream: lines of the bulk result file
    dl,         \* GET /api/bulk/download handler state
    st,         \* last GET /api/bulk/status response
    ex,         \* GET /api/export.csv?useBulk=1 handler state
    env         \* process.env as read at startup: are SHOP and TOKEN set

normVars == <<order, row, npc>>
restVars == <<pages, countResp, req, rpc, url, mapped, reqs, thrown, shopifyTotal, resp>>
bulkVars == <<job, nextId, submits, starts, file, dl, st, ex>>
vars == <<order, row, npc, pages, countResp, req, rpc, url, mapped, reqs, thrown,
          shopifyTotal, resp, job, nextId, submits, starts, file, dl, st, ex, env>>

----------------------------------------------------------------------------
(* JavaScript values *)

Undef == "<undefined>"
Null == "<null>"

\* !v for a string-or-undefined value
Falsy(v) == v \in {Undef, Null, ""}

\* a || b
Or(a, b) == IF Falsy(a) THEN b ELSE a

\* Strings are opaque to TLC: Chars gives the characters of the names that
\* the code inspects with startsWith / includes / toLowerCase.
Chars(s) ==
    CASE s = "utm_source"   -> <<"u","t","m","_","s","o","u","r","c","e">>
      [] s = "utm_medium"   -> <<"u","t","m","_","m","e","d","i","u","m">>
      [] s = "utm_campaign" -> <<"u","t","m","_","c","a","m","p","a","i","g","n">>
      [] s = "utm_term"     -> <<"u","t","m","_","t","e","r","m">>
      [] s = "utm_content"  -> <<"u","t","m","_","c","o","n","t","e","n","t">>
      [] s = "utm_id"       -> <<"u","t","m","_","i","d">>
      [] s = "utm_"         -> <<"u","t","m","_">>
      [] s = "UTM_Campaign" -> <<"U","T","M","_","C","a","m","p","a","i","g","n">>
      [] s = "UTM_Source"   -> <<"U","T","M","_","S","o","u","r","c","e">>
      [] s = "utm_source_x" -> <<"u","t","m","_","s","o","u","r","c","e","_","x">>
      [] s = "ref"          -> <<"r","e","f">>
      [] s = "order_number" -> <<"o","r","d","e","r","_","n","u","m","b","e","r">>
      [] s = "created_at"   -> <<"c","r","e","a","t","e","d","_","a","t">>
      [] s = ""             -> <<>>

LowerChar(c) ==
    CASE c = "U" -> "u" [] c = "T" -> "t" [] c = "M" -> "m"
      [] c = "S" -> "s" [] c = "C" -> "c" [] OTHER -> c

\* String.prototype.toLowerCase, on characters
ToLowerCase(cs) == [i \in 1..Len(cs) |-> LowerChar(cs[i])]

\* String.prototype.startsWith, on characters
StartsWith(cs, p) ==
    /\ Len(p) <= Len(cs)
    /\ \A i \in 1..Len(p) : cs[i] = p[i]

\* String.prototype.includes, on characters
Includes(cs, p) ==
    \E off \in 0..(Len(cs) - Len(p)) : \A i \in 1..Len(p) : cs[off + i] = p[i]

UtmFields == <<"utm_source", "utm_medium", "utm_campaign", "utm_term", "utm_content">>
UtmSet == {UtmFields[i] : i \in 1..Len(UtmFields)}
EmptyUtm == [k \in UtmSet |-> ""]

----------------------------------------------------------------------------
(* AttributionExtractor *)

\* A URL input: kind "absent" is a falsy urlString, "bad" a string that
\* new URL() rejects, "url" a string that parses (an absolute http(s) URL,
\* or a relative one not starting with 'http', which is appended to
\* 'https://' + SHOP); params are the entries of u.searchParams in order.
\* Kind "httprel" is a relative reference whose text starts with 'http'
\* (such as 'http-sale?utm_source=x'): it is handed to new URL() as it is,
\* which rejects it. Kind "nonstring" is a truthy value without startsWith
\* (a number, an object): the TypeError is raised inside the try block.
AbsentUrl == [kind |-> "absent", params |-> <<>>]
BadUrl == [kind |-> "bad", params |-> <<>>]

RECURSIVE AssignUtmParams(_, _)
AssignUtmParams(out, params) ==
    IF params = <<>> THEN out
    ELSE LET k == params[1][1]
             v == params[1][2]
             next == IF StartsWith(Chars(k), Chars("utm_"))
                     THEN (k :> v) @@ out
                     ELSE out
         IN AssignUtmParams(next, Tail(params))

extractUtmFromUrl(u) ==
    IF u.kind = "url" THEN AssignUtmParams(EmptyUtm, u.params) ELSE EmptyUtm

\* An attribute collection: kind "absent" (null / undefined), "array"
\* ([{name, value}, ...]) or "map"; entries in iteration order.
AbsentAttrs == [kind |-> "absent", entries |-> <<>>]

\* Mutant of MatchEntry: a later match overwrites a field already filled
MatchEntryLastWins(out, n, v) ==
    IF Falsy(v) THEN out
    ELSE [k \in DOMAIN out |-> IF Includes(n, Chars(k)) THEN v ELSE out[k]]

\* One iteration of the loop body over an entry with key n (lower-cased
\* characters) and value v.
MatchEntry(out, n, v) ==
    IF Falsy(v) THEN out
    ELSE [k \in DOMAIN out |->
            IF Includes(n, Chars(k)) THEN Or(out[k], v) ELSE out[k]]

RECURSIVE MatchEntries(_, _)
MatchEntries(out, entries) ==
    IF entries = <<>> THEN out
    ELSE LET a == entries[1]
             n == ToLowerCase(Chars(Or(a.name, Or(a.key, ""))))
             v == IF Falsy(a.value) THEN "" ELSE a.value
         IN MatchEntries(MatchEntry(out, n, v), Tail(entries))

extractUtmFromAttributes(attrs) ==
    IF attrs.kind = "absent" THEN EmptyUtm ELSE MatchEntries(EmptyUtm, attrs.entries)

\* A truthy name that is not a string, so that .toLowerCase is not a function
NumberName == "<number 5>"

\* (a.name || a.key || '').toLowerCase() raises a TypeError when the entry a
\* is null or undefined, or when the name found is not a string.
\* NullEntry stands for an array element that is null itself.
NullEntry == [name |-> Null, key |-> Null, value |-> Null]

ThrowingEntry(a) ==
    IF a = NullEntry THEN TRUE
    ELSE Or(a.name, Or(a.key, "")) = NumberName

\* Whether extractUtmFromAttributes(attrs) raises instead of returning: no
\* try/catch surrounds the array loop, and every entry is visited.
extractUtmFromAttributesThrows(attrs) ==
    /\ attrs.kind = "array"
    /\ \E i \in 1..Len(attrs.entries) : ThrowingEntry(attrs.entries[i])

\* Whether extractUtmFromUrl(u) raises: all that can is inside try {} catch {}
extractUtmFromUrlThrows(u) == FALSE

\* attrsA || attrsB : an array or object, even an empty one, is truthy
OrAttrs(a, b) == IF a.kind = "absent" THEN b ELSE a

\* urlA || urlB
OrUrl(a, b) == IF a.kind = "absent" THEN b ELSE a

----------------------------------------------------------------------------
(* OrderNormalizer *)

\* Every key a mapper reads; a key the raw order does not carry is Undef
\* (AbsentUrl / AbsentAttrs for the structured ones).
BlankOrder ==
    [id |-> Undef, order_number |-> Undef, orderNumber |-> Undef, name |-> Undef,
     created_at |-> Undef, createdAt |-> Undef,
     landing_site |-> AbsentUrl, landingSite |-> AbsentUrl, landingSiteUrl |-> AbsentUrl,
     referring_site |-> AbsentUrl, referringSite |-> AbsentUrl,
     note_attributes |-> AbsentAttrs, noteAttributes |-> AbsentAttrs,
     attributes |-> AbsentAttrs, attrs |-> AbsentAttrs]

\* Mutant of MergeUtm: the referring site is consulted before the landing site
MergeUtmReferringFirst(landingU, referringU, noteU) ==
    [k \in UtmSet |-> Or(referringU[k], Or(landingU[k], Or(noteU[k], "")))]

\* landing.x || referring.x || note.x || ''  for each of the five fields
MergeUtm(landingU, referringU, noteU) ==
    [k \in UtmSet |-> Or(landingU[k], Or(referringU[k], Or(noteU[k], "")))]

\* node.order_number || node.orderNumber || node.name || ''
NodeOrderNumber(node) ==
    Or(node.order_number, Or(node.orderNumber, Or(node.name, "")))

\* o.order_number || o.name || ''
RestOrderNumber(o) == Or(o.order_number, Or(o.name, ""))

mapOrderToRow(o) ==
    LET landingUtm == extractUtmFromUrl(o.landing_site)
        referringUtm == extractUtmFromUrl(o.referring_site)
        noteUtm == extractUtmFromAttributes(OrAttrs(o.note_attributes, o.attributes))
    IN MergeUtm(landingUtm, referringUtm, noteUtm) @@
       [id |-> o.id,
        order_number |-> RestOrderNumber(o),
        created_at |-> o.created_at]

mapOrderNodeToRow(node) ==
    LET landing == OrUrl(node.landingSite, OrUrl(node.landing_site, node.landingSiteUrl))
        referring == OrUrl(node.referringSite, node.referring_site)
        landingU == extractUtmFromUrl(landing)
        referringU == extractUtmFromUrl(referring)
        noteU == extractUtmFromAttributes(
                    OrAttrs(node.noteAttributes, OrAttrs(node.note_attributes,
                            OrAttrs(node.attributes, node.attrs))))
    IN MergeUtm(landingU, referringU, noteU) @@
       [id |-> Or(node.id, ""),
        order_number |-> NodeOrderNumber(node),
        created_at |-> Or(node.createdAt, Or(node.created_at, ""))]

\* The object literal pushed by fetchAllOrdersREST:
\* {id, order_number, created_at, ...Object.assign({}, urlUtm, attrUtm)}
RestRow(o) ==
    LET urlUtm == extractUtmFromUrl(o.landing_site)
        attrUtm == extractUtmFromAttributes(OrAttrs(o.note_attributes, o.attributes))
    IN (attrUtm @@ urlUtm) @@
       [id |-> o.id,
        order_number |-> RestOrderNumber(o),
        created_at |-> o.created_at]

----------------------------------------------------------------------------
(* The normaliser of the README revision that formats created_at in IST *)

\* new Date(isoString): the UTC fields of the timestamps used here; any other
\* text is an invalid date
ValidDates ==
    {"2024-01-02T03:04:05Z", "2024-01-31T20:00:00Z", "2023-12-31T23:59:59Z",
     "2024-02-28T19:00:00Z", "2023-02-28T18:30:00Z"}
DateFields(iso) ==
    CASE iso = "2024-01-02T03:04:05Z" -> [Y |-> 2024, M |-> 1, D |-> 2, h |-> 3, m |-> 4, s |-> 5]
      [] iso = "2024-01-31T20:00:00Z" -> [Y |-> 2024, M |-> 1, D |-> 31, h |-> 20, m |-> 0, s |-> 0]
      [] iso = "2023-12-31T23:59:59Z" -> [Y |-> 2023, M |-> 12, D |-> 31, h |-> 23, m |-> 59, s |-> 59]
      [] iso = "2024-02-28T19:00:00Z" -> [Y |-> 2024, M |-> 2, D |-> 28, h |-> 19, m |-> 0, s |-> 0]
      [] iso = "2023-02-28T18:30:00Z" -> [Y |-> 2023, M |-> 2, D |-> 28, h |-> 18, m |-> 30, s |-> 0]

LeapYear(y) == (y % 4 = 0 /\ y % 100 # 0) \/ y % 400 = 0
DaysInMonth(y, m) ==
    CASE m = 2 -> IF LeapYear(y) THEN 29 ELSE 28
      [] m \in {4, 6, 9, 11} -> 30
      [] OTHER -> 31

\* The calendar day after a day
NextDay(f) ==
    IF f.D < DaysInMonth(f.Y, f.M) THEN [f EXCEPT !.D = f.D + 1]
    ELSE IF f.M < 12 THEN [f EXCEPT !.D = 1, !.M = f.M + 1]
    ELSE [f EXCEPT !.D = 1, !.M = 1, !.Y = f.Y + 1]

\* new Date(d.getTime() + 330 * 60 * 1000), in UTC fields
IstOffsetMinutes == 330
AddIstOffset(f) ==
    LET minutes == f.h * 60 + f.m + IstOffsetMinutes
        g == IF minutes >= 24 * 60 THEN NextDay(f) ELSE f
    IN [g EXCEPT !.h = (minutes % (24 * 60)) \div 60, !.m = minutes % 60]

DigitChars == <<"0", "1", "2", "3", "4", "5", "6", "7", "8", "9">>
\* String(n).padStart(2, '0')
Pad2(n) ==
    IF n < 10 THEN <<"0", DigitChars[n + 1]>>
    ELSE <<DigitChars[((n \div 10) % 10) + 1], DigitChars[(n % 10) + 1]>>
\* String(YYYY) for a four-digit year
YearChars(y) == Pad2(y \div 100) \o Pad2(y % 100)

\* formatDateToIST: '' for a missing or invalid date, else 'YYYY-MM-DD HH:mm:ss'
formatDateToIST(isoString) ==
    IF Falsy(isoString) \/ isoString \notin ValidDates THEN <<>>
    ELSE LET ist == AddIstOffset(DateFields(isoString))
         IN YearChars(ist.Y) \o <<"-">> \o Pad2(ist.M) \o <<"-">> \o Pad2(ist.D) \o <<" ">>
            \o Pad2(ist.h) \o <<":">> \o Pad2(ist.m) \o <<":">> \o Pad2(ist.s)

\* (node.name || node.order_number || node.orderNumber || '') + ''
NodeRawName(node) == Or(node.name, Or(node.order_number, Or(node.orderNumber, "")))
\* (o.name || o.order_number || '') + ''
RestRawName(o) == Or(o.name, Or(o.order_number, ""))

\* mapOrderNodeToRow of that revision
mapOrderNodeToRowIST(node) ==
    LET landingU == extractUtmFromUrl(OrUrl(node.landingSite, node.landing_site))
        referringU == extractUtmFromUrl(OrUrl(node.referringSite, node.referring_site))
        noteU == extractUtmFromAttributes(
                    OrAttrs(node.noteAttributes, OrAttrs(node.note_attributes,
                            OrAttrs(node.attributes, node.attrs))))
        createdAtRaw == Or(node.createdAt, Or(node.created_at, ""))
    IN MergeUtm(landingU, referringU, noteU) @@
       [id |-> Or(node.id, ""),
        order_number |-> NodeRawName(node),
        created_at |-> formatDateToIST(createdAtRaw),
        created_at_raw |-> createdAtRaw]

\* The object literal pushed by fetchAllOrdersREST of that revision
RestRowIST(o) ==
    LET urlUtm == extractUtmFromUrl(o.landing_site)
        attrUtm == extractUtmFromAttributes(OrAttrs(o.note_attributes, o.attributes))
        createdAtRaw == Or(o.created_at, "")
    IN (attrUtm @@ urlUtm) @@
       [id |-> o.id,
        order_number |-> RestRawName(o),
        created_at |-> formatDateToIST(createdAtRaw),
        created_at_raw |-> createdAtRaw]

----------------------------------------------------------------------------
(* Normaliser inputs *)

MaxParams == 1
MaxAttrs == 1

SeqsUpTo(S, n) == UNION {[1..m -> S] : m \in 0..n}

\* Query parameters of a landing / referring URL whose utm values are tag.
LandingParams(tag) ==
    {<<"utm_source", "">>, <<"utm_source", tag>>, <<"utm_campaign", tag>>,
     <<"utm_id", tag>>, <<"ref", tag>>}
ReferringParams(tag) == {<<"utm_source", tag>>, <<"utm_campaign", tag>>}

UrlsOver(P) ==
    {AbsentUrl, BadUrl} \cup {[kind |-> "url", params |-> p] : p \in SeqsUpTo(P, MaxParams)}

AttrEntries(tag) ==
    {[name |-> n, key |-> Undef, value |-> v] :
        n \in {"utm_source", "UTM_Campaign"}, v \in {"", tag}}

AttrsOver(E) ==
    {AbsentAttrs} \cup {[kind |-> "array", entries |-> e] : e \in SeqsUpTo(E, MaxAttrs)}

CustomAttrs ==
    {AbsentAttrs,
     [kind |-> "array",
      entries |-> <<[name |-> "utm_source", key |-> Undef, value |-> "attr"]>>]}

\* The order data of one order, independent of its presentation.
OrderData ==
    [landing : UrlsOver(LandingParams("land")),
     referring : UrlsOver(ReferringParams("ref")),
     note : AttrsOver(AttrEntries("note")),
     attributes : CustomAttrs]

\* The order as the REST orders endpoint presents it (snake_case keys).
AsRest(d) ==
    [BlankOrder EXCEPT !.id = "7", !.order_number = "1001", !.name = "#1001",
                       !.created_at = "2024-01-02T03:04:05Z",
                       !.landing_site = d.landing, !.referring_site = d.referring,
                       !.note_attributes = d.note, !.attributes = d.attributes]

\* The order as a node of the bulk (GraphQL) export (camelCase keys; the bulk
\* query aliases orderNumber and order_number to name).
AsBulk(d) ==
    [BlankOrder EXCEPT !.id = "7", !.order_number = "#1001", !.orderNumber = "#1001",
                       !.name = "#1001", !.createdAt = "2024-01-02T03:04:05Z",
                       !.landingSite = d.landing, !.referringSite = d.referring,
                       !.noteAttributes = d.note, !.attributes = d.attributes]

\* The data a raw order carries, whichever shape it is in.
DataOf(o) ==
    [landing |-> OrUrl(o.landing_site, o.landingSite),
     referring |-> OrUrl(o.referring_site, o.referringSite),
     note |-> OrAttrs(o.note_attributes, o.noteAttributes),
     attributes |-> o.attributes]

\* A raw order with none of the camelCase keys of a bulk node
RestShaped(o) ==
    /\ o.landingSite = AbsentUrl /\ o.referringSite = AbsentUrl
    /\ o.noteAttributes = AbsentAttrs /\ o.createdAt = Undef /\ o.orderNumber = Undef

NoRow == [id |-> Undef]

NormIdle == /\ order = BlankOrder /\ row = NoRow /\ npc = "off"

----------------------------------------------------------------------------
(* Normaliser applied to one raw order *)

ApplyMapOrderToRow ==
    /\ npc = "input"
    /\ RestShaped(order)
    /\ row' = mapOrderToRow(order)
    /\ npc' = "mapOrderToRow"
    /\ UNCHANGED <<order, restVars, bulkVars, env>>

ApplyMapOrderNodeToRow ==
    /\ npc = "input"
    /\ row' = mapOrderNodeToRow(order)
    /\ npc' = "mapOrderNodeToRow"
    /\ UNCHANGED <<order, restVars, bulkVars, env>>

\* The row fetchAllOrdersREST pushes for this order.
ApplyRestRow ==
    /\ npc = "input"
    /\ RestShaped(order)
    /\ row' = RestRow(order)
    /\ npc' = "fetchAllOrdersREST"
    /\ UNCHANGED <<order, restVars, bulkVars, env>>

NextNorm == ApplyMapOrderToRow \/ ApplyMapOrderNodeToRow \/ ApplyRestRow

----------------------------------------------------------------------------
(* Upstream orders list endpoint *)

MaxPages == 2
MaxPerPage == 2
MaxCap == 3
MaxRequests == 4

IdNames == <<"1", "2", "3", "4", "5", "6", "7", "8", "9", "10", "11", "12">>

\* created_at of the n-th order delivered: not in delivery order, with ties.
CreatedAtOf(n) ==
    CASE n % 4 = 1 -> "2024-01-02T00:00:00Z"
      [] n % 4 = 2 -> "2024-01-04T00:00:00Z"
      [] n % 4 = 3 -> "2024-01-02T00:00:00Z"
      [] OTHER     -> "2024-01-03T00:00:00Z"

\* new Date(s).getTime(), in days since 2024-01-01, for the timestamps above
DateValue(s) ==
    CASE s = "2024-01-02T00:00:00Z" -> 1
      [] s = "2024-01-03T00:00:00Z" -> 2
      [] s = "2024-01-04T00:00:00Z" -> 3

\* The n-th order of the store, in REST shape: odd orders carry their tags
\* on the landing site, even ones in note_attributes.
RestOrder(n) ==
    [BlankOrder EXCEPT
        !.id = IdNames[n], !.order_number = IdNames[n], !.name = IdNames[n],
        !.created_at = CreatedAtOf(n),
        !.landing_site =
            IF n % 2 = 1
            THEN [kind |-> "url", params |-> <<<<"utm_source", "land">>>>]
            ELSE AbsentUrl,
        !.note_attributes =
            IF n % 2 = 0
            THEN [kind |-> "array",
                  entries |-> <<[name |-> "utm_source", key |-> Undef, value |-> "note"]>>]
            ELSE [kind |-> "array", entries |-> <<>>]]

\* A Link header: the link-values in order, each <target>SEP rel="REL".
NoLink == <<>>
LinkEntry(target, sep, rel) == [target |-> target, sep |-> sep, rel |-> rel]

\* Mutant of NextUrl: the first <...> of the header is followed whatever its rel
NextUrlFirstTarget(link) == IF link = <<>> THEN 0 ELSE link[1].target

\* link && link.includes('rel="next"') ? (link.match(/<([^>]+)>; rel="next"/) ? m[1] : null) : null
\* 0 stands for null.
NextUrl(link) ==
    IF \E i \in 1..Len(link) : link[i].rel = "next"
    THEN LET hits == {i \in 1..Len(link) : link[i].rel = "next" /\ link[i].sep = "; "}
         IN IF hits = {} THEN 0
            ELSE link[CHOOSE i \in hits : \A j \in hits : i <= j].target
    ELSE 0

\* The Link headers page i of n can carry: the end of the chain (no header on
\* a single page, rel="previous" alone on a last page), the chain's next
\* page, a next link back to page 1, a next link without the space.
PrevPart(i) == IF i > 1 THEN <<LinkEntry(i - 1, "; ", "previous")>> ELSE <<>>
LinksOf(i, n) ==
    {PrevPart(i),
     PrevPart(i) \o <<LinkEntry(1, "; ", "next")>>,
     PrevPart(i) \o <<LinkEntry(IF i < n THEN i + 1 ELSE 1, ";", "next")>>}
    \cup (IF i < n THEN {PrevPart(i) \o <<LinkEntry(i + 1, "; ", "next")>>} ELSE {})

\* Order ids first+1 .. first+k
IdRun(first, k) == [j \in 1..k |-> first + j]

RECURSIVE PageSets(_, _, _)
\* All upstreams of n pages, from page i on, whose orders so far are 1..first.
PageSets(i, n, first) ==
    IF i > n THEN {<<>>}
    ELSE UNION {
            {<<[orders |-> IdRun(first, k), link |-> l]>> \o rest :
                rest \in PageSets(i + 1, n, first + k)} :
            k \in 0..MaxPerPage, l \in LinksOf(i, n)}

Upstreams == UNION {PageSets(1, n, 0) : n \in 1..MaxPages}


\* At most one page answers with a non-success status: the fetcher stops at
\* the first one, so the statuses after it are never observed.
WithStatus(ps, failAt) ==
    [i \in 1..Len(ps) |->
        [orders |-> ps[i].orders, link |-> ps[i].link,
         status |-> IF i = failAt THEN 429 ELSE 200,
         body |-> IF i = failAt THEN "Too Many Requests" ELSE "ok"]]

UpstreamPages == {WithStatus(ps, f) : ps \in Upstreams, f \in 0..MaxPages}

\* Responses of the count endpoint: a body with a count (a number, absent,
\* null or a string), a non-success status, a network error.
CountValues ==
    {[t |-> "num", n |-> n, s |-> ""] : n \in {0, 5}} \cup
    {[t |-> "missing", n |-> 0, s |-> ""], [t |-> "null", n |-> 0, s |-> ""],
     [t |-> "str", n |-> 0, s |-> "many"]}
CountResponses ==
    {[kind |-> "ok", status |-> 200, count |-> c] : c \in CountValues} \cup
    {[kind |-> "http", status |-> 500, count |-> [t |-> "missing", n |-> 0, s |-> ""]],
     [kind |-> "network", status |-> 0, count |-> [t |-> "missing", n |-> 0, s |-> ""]]}
NoCountResp == [kind |-> "none", status |-> 0, count |-> [t |-> "missing", n |-> 0, s |-> ""]]

----------------------------------------------------------------------------
(* RestOrderFetcher, OrderCountProbe and the handlers that use them *)

DefaultMax == 2000
ExportMax == 5000
DefaultPage == 1
DefaultPageSize == 100

NoError == [msg |-> "", status |-> 0, body |-> ""]

\* SHOP = process.env.SHOPIFY_STORE, TOKEN = process.env.SHOPIFY_ACCESS_TOKEN
Configured == [shop |-> TRUE, token |-> TRUE]
Environments == [shop : BOOLEAN, token : BOOLEAN]

\* if (!SHOP || !TOKEN) throw new Error('Missing SHOP or TOKEN env vars'),
\* the first statement of fetchAllOrdersREST and of fetchOrdersCount
ConfigError(e) ==
    IF ~e.shop \/ ~e.token
    THEN [msg |-> "Missing SHOP or TOKEN env vars", status |-> 0, body |-> ""]
    ELSE NoError
NoResp == [kind |-> "none"]
NullTotal == [t |-> "null", n |-> 0, s |-> ""]
NoReq ==
    [endpoint |-> "none", cap |-> 0, page |-> 0, pageSize |-> 0, preview |-> 0,
     columns |-> <<>>]

\* Mutant of CheckResponse: the status of a page response is not looked at
CheckResponseIgnored(p) == NoError

\* if (!resp.ok) throw new Error('Shopify API error: ' + resp.status + ' - ' + text)
CheckResponse(p) ==
    IF p.status # 200
    THEN [msg |-> "Shopify API error: ", status |-> p.status, body |-> p.body]
    ELSE NoError

RECURSIVE PushOrders(_, _, _)
\* for (const o of data.orders) { mapped.push(row); if (mapped.length >= maxResults) break; }
PushOrders(acc, orders, maxResults) ==
    IF orders = <<>> THEN acc
    ELSE LET acc2 == Append(acc, RestRow(RestOrder(orders[1])))
         IN IF Len(acc2) >= maxResults THEN acc2
            ELSE PushOrders(acc2, Tail(orders), maxResults)

\* fetchOrdersCount: the value returned, or threw
fetchOrdersCount(r) ==
    IF r.kind # "ok" THEN [threw |-> TRUE, value |-> NullTotal]
    ELSE IF r.count.t = "num" /\ r.count.n # 0 THEN [threw |-> FALSE, value |-> r.count]
    ELSE IF r.count.t = "str" THEN [threw |-> FALSE, value |-> r.count]
    ELSE [threw |-> FALSE, value |-> [t |-> "num", n |-> 0, s |-> ""]]

\* Mutant of ProbeTotal: a failed probe is reported as a total of 0
ProbeTotalZero(r) ==
    LET c == fetchOrdersCount(r)
    IN IF c.threw THEN [t |-> "num", n |-> 0, s |-> ""] ELSE c.value

\* try { shopifyTotal = await fetchOrdersCount(...) } catch (e) { shopifyTotal = null }
ProbeTotal(r) ==
    LET c == fetchOrdersCount(r) IN IF c.threw THEN NullTotal ELSE c.value

RECURSIVE InsertDesc(_, _, _)
\* x placed after every element that the comparator does not put behind it
InsertDesc(sorted, x, key) ==
    IF sorted = <<>> THEN <<x>>
    ELSE IF DateValue(x[key]) - DateValue(sorted[1][key]) > 0
         THEN <<x>> \o sorted
         ELSE <<sorted[1]>> \o InsertDesc(Tail(sorted), x, key)

\* Mutant of SortDesc: the rows stay in the order they were fetched in
FetchOrder(rows, key) == rows

RECURSIVE SortDesc(_, _)
\* rows.sort((a,b) => new Date(b[key]) - new Date(a[key])), a stable sort
SortDesc(rows, key) ==
    IF rows = <<>> THEN <<>>
    ELSE InsertDesc(SortDesc(SubSeq(rows, 1, Len(rows) - 1), key), rows[Len(rows)], key)

Min(a, b) == IF a < b THEN a ELSE b
Max(a, b) == IF a > b THEN a ELSE b

\* rows.slice(from, to) with 0-based non-negative bounds
Slice(rows, from, to) == SubSeq(rows, from + 1, Min(to, Len(rows)))

Columns ==
    <<"order_number", "created_at", "utm_source", "utm_medium", "utm_campaign",
      "utm_term", "utm_content">>

\* r[k] === null || r[k] === undefined ? '' : String(r[k])
CsvCell(r, k) == IF k \notin DOMAIN r \/ r[k] \in {Null, Undef} THEN "" ELSE r[k]
CsvLine(r) == [i \in 1..Len(Columns) |-> CsvCell(r, Columns[i])]

\* The export loop: one line per row, stopping once preview rows are written
ExportLines(rows, preview) ==
    LET n == IF preview # 0 /\ Len(rows) > 0 THEN Min(Max(preview, 1), Len(rows)) ELSE Len(rows)
    IN [i \in 1..n |-> CsvLine(rows[i])]

ErrorResponse(status, e) == [kind |-> "error", status |-> status, error |-> e]

\* The server process handles requests until an exception that nothing
\* catches ends it
ProcessRunning == ~dl.uncaught

RestIdle ==
    /\ pages = <<>> /\ countResp = NoCountResp /\ req = NoReq /\ rpc = "off"
    /\ url = 0 /\ mapped = <<>> /\ reqs = <<>> /\ thrown = NoError
    /\ shopifyTotal = NullTotal /\ resp = NoResp

\* page and pageSize of a request, after parseInt and clamping: the
\* defaults, and pages of one and two rows
Pagings == {<<DefaultPage, DefaultPageSize>>, <<2, 1>>, <<1, 2>>}

\* GET /api/orders?start&end&max&page&pageSize and
\* GET /api/export.csv?start&end&preview arrive
\* The columns query parameter of an export request, split at the commas:
\* none, or a caller's selection of row fields in the caller's order
ColumnLists == {<<>>, <<"utm_source", "order_number">>}

Request ==
    /\ ProcessRunning
    /\ rpc = "idle"
    /\ \E r \in
          {[endpoint |-> "orders", cap |-> c, page |-> pg[1],
            pageSize |-> pg[2], preview |-> 0, columns |-> <<>>] :
              c \in (0..MaxCap) \cup {DefaultMax}, pg \in Pagings}
          \cup
          {[endpoint |-> "export", cap |-> ExportMax, page |-> DefaultPage,
            pageSize |-> DefaultPageSize, preview |-> pv, columns |-> cl] :
              pv \in {0, 1}, cl \in ColumnLists} :
          req' = r
    /\ url' = 1
    /\ IF ConfigError(env) # NoError
       THEN /\ thrown' = ConfigError(env)
            /\ resp' = ErrorResponse(500, thrown')
            /\ rpc' = "done"
       ELSE /\ rpc' = "fetch"
            /\ UNCHANGED <<thrown, resp>>
    /\ UNCHANGED <<pages, countResp, mapped, reqs, shopifyTotal, normVars, bulkVars, env>>

\* start or end missing
RequestWithoutRange ==
    /\ ProcessRunning
    /\ rpc = "idle"
    /\ \E e \in {"orders", "export"} : req' = [NoReq EXCEPT !.endpoint = e]
    /\ resp' = ErrorResponse(400,
                 [msg |-> "start and end required (YYYY-MM-DD)", status |-> 0, body |-> ""])
    /\ rpc' = "done"
    /\ UNCHANGED <<pages, countResp, url, mapped, reqs, thrown, shopifyTotal,
                   normVars, bulkVars, env>>

\* What the handler does once fetchAllOrdersREST has returned rows.
AfterFetch(rows) ==
    IF req.endpoint = "orders"
    THEN /\ rpc' = "count"
         /\ resp' = resp
    ELSE /\ rpc' = "done"
         /\ resp' = [kind |-> "csv", status |-> 200, header |-> Columns,
                     lines |-> ExportLines(rows, req.preview)]

\* Mutant of CapReached: the loop goes on until the cap is exceeded
CapExceeded(acc, cap) == Len(acc) > cap

\* if (mapped.length >= maxResults) break;
CapReached(acc, cap) == Len(acc) >= cap

\* while (url) { const res = await fetch(url, ...): fetchAllOrdersREST issues
\* the request for the page and is suspended until the upstream answers
FetchPage ==
    /\ ProcessRunning
    /\ rpc = "fetch"
    /\ url # 0
    /\ Len(reqs) < MaxRequests
    /\ reqs' = Append(reqs, url)
    /\ rpc' = "await fetch"
    /\ UNCHANGED <<pages, countResp, req, url, mapped, thrown, shopifyTotal, resp,
                   normVars, bulkVars, env>>

\* The rest of the iteration, once the page has answered: the status check,
\* await res.json(), the rows pushed up to the cap, the next link
FetchPageAnswer ==
    /\ ProcessRunning
    /\ rpc = "await fetch"
    /\ reqs' = reqs
    /\ LET p == pages[url] IN
       IF CheckResponse(p) # NoError
       THEN /\ thrown' = CheckResponse(p)
            /\ resp' = ErrorResponse(500, thrown')
            /\ rpc' = "done"
            /\ UNCHANGED <<url, mapped>>
       ELSE LET acc == PushOrders(mapped, p.orders, req.cap)
                capped == CapReached(acc, req.cap)
                next == IF capped THEN url ELSE NextUrl(p.link)
            IN /\ mapped' = acc
               /\ url' = next
               /\ thrown' = thrown
               /\ IF capped \/ next = 0
                  THEN AfterFetch(acc)
                  ELSE rpc' = "fetch" /\ resp' = resp
    /\ UNCHANGED <<pages, countResp, req, shopifyTotal, normVars, bulkVars, env>>

\* /api/orders after the rows are fetched: the count probe inside try/catch,
\* then sort, page and respond
CountAndRespond ==
    /\ ProcessRunning
    /\ rpc = "count"
    /\ \E r \in CountResponses :
        LET total == ProbeTotal(r)
            sorted == SortDesc(mapped, "created_at")
            startIdx == (req.page - 1) * req.pageSize
        IN /\ countResp' = r
           /\ shopifyTotal' = total
           /\ mapped' = sorted
           /\ resp' = [kind |-> "json", status |-> 200, total_fetched |-> Len(sorted),
                       page |-> req.page, pageSize |-> req.pageSize,
                       orders |-> Slice(sorted, startIdx, startIdx + req.pageSize),
                       shopify_total |-> total]
    /\ rpc' = "done"
    /\ UNCHANGED <<pages, req, url, reqs, thrown, normVars, bulkVars, env>>

----------------------------------------------------------------------------
(* The first listing of server.js: fetchAllOrders and its two handlers *)

\* GET /api/orders?start&end&page&pageSize&max and
\* GET /api/export.csv?start&end&columns&preview of the first listing.
\* max and preview are parameters the later listings read; these handlers
\* destructure start, end, page, pageSize and start, end, columns only.
FirstListingRequests ==
    {[endpoint |-> "orders (first listing)", cap |-> 1, page |-> pg[1],
      pageSize |-> pg[2], preview |-> 0, columns |-> <<>>] : pg \in Pagings}
    \cup
    {[endpoint |-> "export (first listing)", cap |-> 0, page |-> DefaultPage,
      pageSize |-> DefaultPageSize, preview |-> pv, columns |-> cl] :
        pv \in {0, 1}, cl \in ColumnLists}

\* if (!start || !end) return res.status(400).json(...): /api/orders names
\* the date format, /api/export.csv does not
RangeRequired(endpoint) ==
    ErrorResponse(400,
        [msg |-> IF endpoint = "orders (first listing)"
                 THEN "start and end required (YYYY-MM-DD)"
                 ELSE "start and end required",
         status |-> 0, body |-> ""])

\* The handlers up to the call of fetchAllOrders, whose first statement
\* raises when SHOP or TOKEN is missing
RequestFirstListing ==
    /\ ProcessRunning
    /\ rpc = "idle"
    /\ \E r \in FirstListingRequests, ranged \in BOOLEAN :
        IF ~ranged
        THEN /\ req' = [NoReq EXCEPT !.endpoint = r.endpoint]
             /\ resp' = RangeRequired(r.endpoint)
             /\ rpc' = "done"
             /\ UNCHANGED <<url, thrown>>
        ELSE /\ req' = r
             /\ url' = 1
             /\ IF ConfigError(env) # NoError
                THEN /\ thrown' = ConfigError(env)
                     /\ resp' = ErrorResponse(500, thrown')
                     /\ rpc' = "done"
                ELSE /\ rpc' = "fetchAll"
                     /\ UNCHANGED <<thrown, resp>>
    /\ UNCHANGED <<pages, countResp, mapped, reqs, shopifyTotal, normVars, bulkVars, env>>

\* while (url) { const res = await fetch(url, ...): fetchAllOrders issues the
\* request for the page and is suspended until the upstream answers
FetchAllOrdersPage ==
    /\ ProcessRunning
    /\ rpc = "fetchAll"
    /\ url # 0
    /\ Len(reqs) < MaxRequests
    /\ reqs' = Append(reqs, url)
    /\ rpc' = "await fetchAll"
    /\ UNCHANGED <<pages, countResp, req, url, mapped, thrown, shopifyTotal, resp,
                   normVars, bulkVars, env>>

\* The rest of the iteration, once the page has answered:
\* orders.push(...data.orders) for every page, whatever max the caller
\* sent. The raw orders are kept; the handler maps them once the loop ends.
FetchAllOrdersAnswer ==
    /\ ProcessRunning
    /\ rpc = "await fetchAll"
    /\ reqs' = reqs
    /\ LET p == pages[url] IN
       IF CheckResponse(p) # NoError
       THEN /\ thrown' = CheckResponse(p)
            /\ resp' = ErrorResponse(500, thrown')
            /\ rpc' = "done"
            /\ UNCHANGED <<url, mapped>>
       ELSE /\ mapped' = mapped \o [i \in 1..Len(p.orders) |-> RestOrder(p.orders[i])]
            /\ url' = NextUrl(p.link)
            /\ rpc' = IF NextUrl(p.link) = 0 THEN "fetched" ELSE "fetchAll"
            /\ UNCHANGED <<thrown, resp>>
    /\ UNCHANGED <<pages, countResp, req, shopifyTotal, normVars, bulkVars, env>>

\* (columns || 'order_number,created_at,utm_source,...').split(',')
ColumnsOrDefault(columns) == IF columns = <<>> THEN Columns ELSE columns

\* stringify(mapped, { header: true, columns: cols }): the header is cols,
\* and each record gives the cells of cols in that order
StringifyRecords(rows, cols) ==
    [i \in 1..Len(rows) |-> [j \in 1..Len(cols) |-> CsvCell(rows[i], cols[j])]]

\* The handlers once fetchAllOrders has returned: rawOrders.map(mapOrderToRow),
\* then sort, page and res.json for /api/orders, stringify and res.send for
\* /api/export.csv
RespondFirstListing ==
    /\ ProcessRunning
    /\ rpc = "fetched"
    /\ LET rows == [i \in 1..Len(mapped) |-> mapOrderToRow(mapped[i])]
           sorted == SortDesc(rows, "created_at")
           startIdx == (req.page - 1) * req.pageSize
           cols == ColumnsOrDefault(req.columns)
       IN IF req.endpoint = "orders (first listing)"
          THEN /\ mapped' = sorted
               /\ resp' = [kind |-> "json", status |-> 200, total |-> Len(sorted),
                           page |-> req.page, pageSize |-> req.pageSize,
                           orders |-> Slice(sorted, startIdx, startIdx + req.pageSize)]
          ELSE /\ mapped' = rows
               /\ resp' = [kind |-> "csv", status |-> 200, header |-> cols,
                           lines |-> StringifyRecords(rows, cols)]
    /\ rpc' = "done"
    /\ UNCHANGED <<pages, countResp, req, url, reqs, thrown, shopifyTotal,
                   normVars, bulkVars, env>>

NextRest ==
    \/ Request \/ RequestWithoutRange \/ FetchPage \/ FetchPageAnswer \/ CountAndRespond
    \/ RequestFirstListing \/ FetchAllOrdersPage \/ FetchAllOrdersAnswer
    \/ RespondFirstListing

----------------------------------------------------------------------------
(* Upstream bulk operation slot and the bulk result file *)

MaxJobs == 2
MaxStarts == MaxJobs
MaxLines == 2
MaxPreview == 2

NoJob == [id |-> 0, status |-> "NONE", errorCode |-> Null, url |-> Null]
ErrorCodes == {"ACCESS_DENIED", "TIMEOUT"}

\* Nodes of the bulk export: 1 carries tags on landing and referring site,
\* 2 in noteAttributes only.
BulkNode(n) ==
    IF n = 1
    THEN [BlankOrder EXCEPT
            !.id = "gid://1", !.name = "#1", !.orderNumber = "#1", !.order_number = "#1",
            !.createdAt = "2024-01-02T00:00:00Z",
            !.landingSite = [kind |-> "url", params |-> <<<<"utm_source", "land">>>>],
            !.referringSite = [kind |-> "url",
                               params |-> <<<<"utm_source", "ref">>, <<"utm_campaign", "ref">>>>]]
    ELSE [BlankOrder EXCEPT
            !.id = "gid://2", !.name = "#2", !.orderNumber = "#2", !.order_number = "#2",
            !.createdAt = "2024-01-03T00:00:00Z",
            !.noteAttributes =
                [kind |-> "array",
                 entries |-> <<[name |-> "UTM_Source", key |-> Undef, value |-> "note"]>>]]

\* An element of orders.edges: null, an object without node, {node: ...}
NullEdge == [kind |-> "null", node |-> 0]
EmptyEdge == [kind |-> "nonode", node |-> 0]
NodeEdge(n) == [kind |-> "node", node |-> n]

\* A line of the file: blank, not JSON, {orders:{edges:[...]}}, {node:{...}}
\* or the order object itself.
EdgeLists ==
    {<<>>, <<NodeEdge(1)>>, <<NullEdge, NodeEdge(2)>>, <<NodeEdge(1), EmptyEdge, NodeEdge(2)>>}
Lines ==
    {[kind |-> "blank", edges |-> <<>>], [kind |-> "malformed", edges |-> <<>>]}
    \cup {[kind |-> "edges", edges |-> e] : e \in EdgeLists}
    \cup {[kind |-> k, edges |-> <<NodeEdge(2)>>] : k \in {"node", "bare"}}

Files == SeqsUpTo(Lines, MaxLines)

\* The line `null`: valid JSON, so JSON.parse returns null, which is handed
\* to mapOrderNodeToRow as the order itself.
NullLine == [kind |-> "null", edges |-> <<>>]

\* Files in which such a line can occur
FaultyFiles == SeqsUpTo(Lines \cup {NullLine}, MaxLines)

\* A line holding a number, a string, an array, true or false: valid JSON
\* that has none of the properties read, handed to mapOrderNodeToRow as the
\* order itself.
ScalarLine == [kind |-> "scalar", edges |-> <<>>]

\* Files whose lines are any JSON value, blank or not JSON
JsonFiles == SeqsUpTo(Lines \cup {NullLine, ScalarLine}, MaxLines)

----------------------------------------------------------------------------
(* BulkExportOrchestrator *)

\* parseInt(req.query.preview, 10) of the requests: absent or 0, a limit up
\* to the rows the file can hold, a negative number
Previews == {pv \in (-1)..MaxPreview : pv <= Len(file) + 1}

\* body is fetchRes.body, gunzip the zlib stream it is piped into, rl the
\* readline interface over gunzip ("none" before they exist); client tells
\* whether the caller's connection is still there, uncaught whether an
\* 'error' event was raised on rl while it had no listener.
\* answer is what shopifyGraphQL has received from the upstream while the
\* handler is still suspended in its await.
NoAnswer == [kind |-> "none", op |-> NoJob]
DlIdle ==
    [pc |-> "idle", via |-> "none", preview |-> 0, answer |-> NoAnswer, op |-> NoJob,
     li |-> 0, count |-> 0,
     header |-> FALSE, lines |-> <<>>, resp |-> NoResp,
     body |-> "none", gunzip |-> "none", rl |-> "none", client |-> "connected",
     uncaught |-> FALSE]

\* The input has been read to its end: body and gunzip have ended and the
\* interface has closed.
EndOfInput(d) == [d EXCEPT !.rl = "closed", !.gunzip = "ended", !.body = "ended"]
ExIdle == [pc |-> "idle", preview |-> 0, answer |-> NoAnswer, op |-> NoJob, resp |-> NoResp]

\* GET /api/bulk/status, one call at a time: resp is the answer given to the
\* caller of the latest call, none while that call is suspended
StIdle == [pc |-> "idle", answer |-> NoAnswer, resp |-> NoResp]

\* POST /api/bulk/start: n answers given, resp the last of them, pending the
\* upstream's answers to mutations whose handlers have not resumed yet
NoStarts == [n |-> 0, resp |-> NoResp, pending |-> <<>>]
Started(id) ==
    [kind |-> "json", status |-> 200, started |-> TRUE, id |-> id, jobStatus |-> "CREATED"]

BulkIdle ==
    /\ job = NoJob /\ nextId = 1 /\ submits = 0 /\ starts = NoStarts
    /\ file = <<>> /\ dl = DlIdle /\ st = StIdle /\ ex = ExIdle

Msg(text, detail) == [msg |-> text, status |-> 0, body |-> detail]

\* shopifyGraphQL: if (json.errors) throw new Error(JSON.stringify(json.errors)),
\* which every handler answers with 500 { error: err.message }
GraphQLAnswers == {"data", "errors"}
GraphQLError == ErrorResponse(500, Msg("json.errors", ""))

\* shopifyGraphQL posts to https://${SHOP}/... with X-Shopify-Access-Token
\* TOKEN without looking at either. Without SHOP the host is 'undefined'
\* and fetch rejects; with SHOP but without TOKEN the upstream refuses the
\* request and answers with errors.
FetchRejected == ErrorResponse(500, Msg("request to https://undefined/ failed", ""))
GraphQLAnswersIn(e) ==
    IF ~e.shop THEN {"unreachable"}
    ELSE IF ~e.token THEN {"errors"}
    ELSE GraphQLAnswers
GraphQLFailure(g) == IF g = "unreachable" THEN FetchRejected ELSE GraphQLError

\* shopifyGraphQL of the README listings, whose first statement is
\* if (!SHOP || !TOKEN) throw new Error('Missing SHOP or TOKEN env vars'):
\* no request leaves without both
GraphQLChecked(e) == ConfigError(e)

\* The upstream's answer to { currentBulkOperation { ... } } as the awaiting
\* handler will find it: j.data.currentBulkOperation for data
Answer(g, j) == [kind |-> g, op |-> IF g = "data" THEN j ELSE NoJob]

\* Mutant of CurrentOperation: the handlers keep serving the first operation
\* that was started, as if they held on to its handle
RememberedOperation(j) ==
    IF j.id > 1
    THEN [id |-> 1, status |-> "COMPLETED", errorCode |-> Null, url |-> "file"]
    ELSE j

\* j.data.currentBulkOperation of the answer to the query
\* { currentBulkOperation { id status errorCode url objectCount } }, which
\* status, download and export each send anew: the upstream's one slot j
CurrentOperation(j) == j

\* The upstream runs the current operation.
UpstreamProgress ==
    /\ \/ /\ job.status = "CREATED"
          /\ job' = [job EXCEPT !.status = "RUNNING"]
       \/ /\ job.status = "RUNNING"
          /\ \E u \in {"file", Null} :
                job' = [job EXCEPT !.status = "COMPLETED", !.url = u]
       \/ /\ job.status = "RUNNING"
          /\ \E c \in ErrorCodes :
                job' = [job EXCEPT !.status = "FAILED", !.errorCode = c]
       \/ /\ job.status = "RUNNING"
          /\ job' = [job EXCEPT !.status = "CANCELED"]
    /\ UNCHANGED <<nextId, submits, starts, file, dl, st, ex, normVars, restVars, env>>

\* if (!start || !end) return res.status(400).json(...)
StartRefused ==
    ErrorResponse(400, Msg("start and end required (YYYY-MM-DD)", ""))

\* POST /api/bulk/start without start or without end: answered 400 before
\* anything is sent
BulkStartRefused ==
    /\ ProcessRunning
    /\ starts.n + Len(starts.pending) < MaxStarts
    /\ starts' = [starts EXCEPT !.n = starts.n + 1, !.resp = StartRefused]
    /\ UNCHANGED <<job, nextId, submits, file, dl, st, ex, normVars, restVars, env>>

\* POST /api/bulk/start with start and end, up to await shopifyGraphQL: one
\* bulkOperationRunQuery mutation is sent and acted on by the upstream, which
\* answers with userErrors while an operation is in progress. The handler
\* stays suspended; what it will answer is kept in pending.
BulkStart ==
    /\ ProcessRunning
    /\ nextId <= MaxJobs
    /\ submits < MaxStarts
    /\ starts.n + Len(starts.pending) < MaxStarts
    /\ submits' = submits + 1
    /\ \E g \in GraphQLAnswersIn(env) :
       IF g # "data"
       THEN /\ starts' = [starts EXCEPT !.pending = Append(@, GraphQLFailure(g))]
            /\ UNCHANGED <<job, nextId>>
       ELSE IF job.status \in {"CREATED", "RUNNING"}
       THEN /\ starts' = [starts EXCEPT !.pending =
                            Append(@, ErrorResponse(500, Msg("userErrors", "already in progress")))]
            /\ UNCHANGED <<job, nextId>>
       ELSE /\ job' = [id |-> nextId, status |-> "CREATED", errorCode |-> Null, url |-> Null]
            /\ nextId' = nextId + 1
            /\ starts' = [starts EXCEPT !.pending = Append(@, Started(nextId))]
    /\ UNCHANGED <<file, dl, st, ex, normVars, restVars, env>>

\* A suspended start handler resumes with the upstream's answer:
\* res.status(500).json({ error }) or res.json({ started: true, id, status })
BulkStartAnswer ==
    /\ ProcessRunning
    /\ \E i \in 1..Len(starts.pending) :
        starts' = [n |-> starts.n + 1, resp |-> starts.pending[i],
                   pending |-> SubSeq(starts.pending, 1, i - 1)
                               \o SubSeq(starts.pending, i + 1, Len(starts.pending))]
    /\ UNCHANGED <<job, nextId, submits, file, dl, st, ex, normVars, restVars, env>>

\* GET /api/bulk/status up to await shopifyGraphQL: the upstream answers the
\* query with its current operation
BulkStatus ==
    /\ ProcessRunning
    /\ st.pc = "idle"
    /\ \E g \in GraphQLAnswersIn(env) :
        st' = [StIdle EXCEPT !.pc = "asked", !.answer = Answer(g, CurrentOperation(job))]
    /\ UNCHANGED <<job, nextId, submits, starts, file, dl, ex, normVars, restVars, env>>

\* The status handler resumes: res.json(op || { status: 'NONE' }) with the
\* operation of the answer, or 500 from the catch block
BulkStatusAnswer ==
    /\ ProcessRunning
    /\ st.pc = "asked"
    /\ st' = [pc |-> "idle", answer |-> NoAnswer,
              resp |-> IF st.answer.kind # "data" THEN GraphQLFailure(st.answer.kind)
                       ELSE [kind |-> "json", status |-> 200, body |-> st.answer.op]]
    /\ UNCHANGED <<job, nextId, submits, starts, file, dl, ex, normVars, restVars, env>>

\* Mutant of DownloadCheck: only the absence of an operation is refused
DownloadCheckLax(op) ==
    IF op.status = "NONE"
    THEN ErrorResponse(404, Msg("No bulk operation found. Start one first.", ""))
    ELSE NoResp

\* The checks of /api/bulk/download on the operation the upstream reported.
DownloadCheck(op) ==
    IF op.status = "NONE"
    THEN ErrorResponse(404, Msg("No bulk operation found. Start one first.", ""))
    ELSE IF op.status # "COMPLETED"
    THEN ErrorResponse(400, Msg("Bulk operation not ready. Status: ", op.status))
    ELSE IF op.url = Null
    THEN ErrorResponse(500, Msg("Bulk operation completed but no URL returned.", ""))
    ELSE NoResp

\* GET /api/bulk/download up to await shopifyGraphQL, directly (preview
\* from the query) or by following the redirect of /api/export.csv: the
\* upstream answers the query with its current operation
DownloadQuery ==
    /\ ProcessRunning
    /\ dl.pc = "idle"
    /\ \E via \in {"direct", "export"}, pv \in Previews, g \in GraphQLAnswersIn(env) :
        /\ via = "export" => ex.pc = "redirected" /\ pv = ex.preview
        /\ dl' = [DlIdle EXCEPT !.via = via, !.preview = pv, !.pc = "asked",
                                !.answer = Answer(g, CurrentOperation(job))]
        /\ ex' = IF via = "export" THEN [ex EXCEPT !.pc = "followed"] ELSE ex
    /\ UNCHANGED <<job, nextId, submits, starts, file, st, normVars, restVars, env>>

\* The download handler resumes with the answer: the checks on op, then the
\* file request
DownloadChecked ==
    /\ ProcessRunning
    /\ dl.pc = "asked"
    /\ LET g == dl.answer.kind
           op == dl.answer.op
           r == IF g # "data" THEN GraphQLFailure(g) ELSE DownloadCheck(op) IN
       dl' = [dl EXCEPT !.answer = NoAnswer, !.op = op, !.resp = r,
                        !.pc = IF r.kind = "none" THEN "fetch" ELSE "done"]
    /\ UNCHANGED <<job, nextId, submits, starts, file, st, ex, normVars, restVars, env>>

\* fetch(url) answers: not ok throws; ok sets the headers and writes the
\* CSV header line
DownloadFetch ==
    /\ ProcessRunning
    /\ dl.pc = "fetch"
    /\ \E ok \in BOOLEAN :
        dl' = IF ok
              THEN [dl EXCEPT !.pc = "stream", !.header = TRUE, !.li = 1,
                              !.body = "open", !.gunzip = "open", !.rl = "open"]
              ELSE [dl EXCEPT !.pc = "done",
                      !.resp = ErrorResponse(500,
                                 [msg |-> "Failed to download bulk file: ",
                                  status |-> 403, body |-> ""])]
    /\ UNCHANGED <<job, nextId, submits, starts, file, st, ex, normVars, restVars, env>>

\* Mutant of LineStep: a JSON.parse failure is not caught
LineStepParseThrows(line) ==
    IF line.kind = "blank" THEN "skip"
    ELSE IF line.kind = "malformed" THEN "throw"
    ELSE "rows"

\* What the loop body does with a line: skip it (blank, or JSON.parse threw
\* and the catch continues) or map it to rows.
LineStep(line) ==
    IF line.kind = "blank" THEN "skip"
    ELSE IF line.kind = "malformed" THEN "skip"
    ELSE "rows"

\* mapOrderNodeToRow(null) raises a TypeError at node.landingSite
RowsThrow(line) == line.kind = "null"

\* catch (err) { res.status(500).json({ error: err.message }) } once the CSV
\* header has been written: json() raises because the headers are sent, the
\* handler's promise rejects, and nothing ends the response. The caller
\* holds a 200 response with the lines written so far and no error.
CatchAfterHeaders(d) ==
    [d EXCEPT !.pc = "failed",
              !.resp = [kind |-> "unfinished", status |-> 200, header |-> Columns,
                        lines |-> d.lines]]

\* The rows of one parsed line
RowsOfLine(line) ==
    IF line.kind = "edges"
    THEN LET keep == SelectSeq(line.edges, LAMBDA e : e.kind = "node")
         IN [i \in 1..Len(keep) |-> mapOrderNodeToRow(BulkNode(keep[i].node))]
    ELSE IF line.kind = "scalar" THEN <<mapOrderNodeToRow(BlankOrder)>>
    ELSE <<mapOrderNodeToRow(BulkNode(line.edges[1].node))>>

\* for (const r of rows) { write; count++; if (preview && count >= preview) break; }
WriteRows(rows, count, preview) ==
    LET n == IF preview # 0 /\ Len(rows) > 0
             THEN Min(Max(preview - count, 1), Len(rows))
             ELSE Len(rows)
    IN [i \in 1..n |-> CsvLine(rows[i])]

\* One iteration of for await (const line of rl); the loop is left, and the
\* response ended, when preview rows have been written. Leaving the loop, by
\* break or by an exception, only takes the iterator's listeners off rl: the
\* interface stays open and gunzip keeps flowing.
DownloadLine ==
    /\ ProcessRunning
    /\ dl.pc = "stream"
    /\ dl.li <= Len(file)
    /\ LET line == file[dl.li] IN
       IF LineStep(line) = "skip"
       THEN dl' = [dl EXCEPT !.li = dl.li + 1]
       ELSE IF LineStep(line) # "rows" \/ RowsThrow(line)
       THEN \* an exception leaves the loop after the header was written
            dl' = CatchAfterHeaders([dl EXCEPT !.li = dl.li + 1])
       ELSE LET written == WriteRows(RowsOfLine(line), dl.count, dl.preview)
                count == dl.count + Len(written)
                stop == dl.preview # 0 /\ count >= dl.preview
                d == [dl EXCEPT !.li = dl.li + 1, !.count = count,
                                !.lines = dl.lines \o written,
                                !.pc = IF stop THEN "done" ELSE "stream",
                                !.resp = IF stop
                                         THEN [kind |-> "csv", status |-> 200,
                                               header |-> Columns,
                                               lines |-> dl.lines \o written]
                                         ELSE dl.resp]
            IN dl' = d
    /\ UNCHANGED <<job, nextId, submits, starts, file, st, ex, normVars, restVars, env>>

\* The file is exhausted: res.end()
DownloadEnd ==
    /\ ProcessRunning
    /\ dl.pc = "stream"
    /\ dl.li > Len(file)
    /\ dl' = EndOfInput([dl EXCEPT !.pc = "done",
                        !.resp = [kind |-> "csv", status |-> 200, header |-> Columns,
                                  lines |-> dl.lines]])
    /\ UNCHANGED <<job, nextId, submits, starts, file, st, ex, normVars, restVars, env>>

\* Once the handler has left the loop nothing consumes rl, which goes on
\* reading: each remaining line of the file raises a line event that finds
\* no listener, then the input ends and the interface closes.
ReadBehind ==
    /\ ProcessRunning
    /\ dl.pc \in {"done", "failed"}
    /\ dl.rl = "open"
    /\ dl.gunzip = "open"
    /\ dl' = IF dl.li <= Len(file) THEN [dl EXCEPT !.li = dl.li + 1] ELSE EndOfInput(dl)
    /\ UNCHANGED <<job, nextId, submits, starts, file, st, ex, normVars, restVars, env>>

\* What can be wrong with the gzip data: it is cut short and the body ends
\* (unexpected end of file), or it holds bytes that are not gzip data
GzipFaults == {"cut", "corrupt"}

\* The decompression fails, at any point up to the gzip trailer that follows
\* the last line: gunzip is destroyed, and stream.pipeline, whose callback
\* logs the error, destroys the body unless the body has already ended. The
\* readline interface is not closed and raises the error. Inside the loop
\* over rl the error is thrown there and the catch block cannot send its
\* 500; once the loop has been left rl has no listener for it, and the
\* exception ends the process.
GunzipError ==
    /\ ProcessRunning
    /\ dl.pc \in {"stream", "done", "failed"}
    /\ dl.rl = "open"
    /\ dl.gunzip = "open"
    /\ \E fault \in GzipFaults :
        LET d == [dl EXCEPT !.gunzip = "destroyed",
                            !.body = IF fault = "cut" THEN "ended" ELSE "destroyed"]
        IN dl' = IF dl.pc = "stream"
                 THEN CatchAfterHeaders(d)
                 ELSE [d EXCEPT !.uncaught = TRUE]
    /\ UNCHANGED <<job, nextId, submits, starts, file, st, ex, normVars, restVars, env>>

\* The caller's connection goes away while the CSV is being streamed. The
\* handler registers no 'close' listener on req or res, so nothing else
\* changes; later res.write calls are discarded without an exception.
ClientDisconnect ==
    /\ dl.pc = "stream"
    /\ dl.client = "connected"
    /\ dl' = [dl EXCEPT !.client = "gone"]
    /\ UNCHANGED <<job, nextId, submits, starts, file, st, ex, normVars, restVars, env>>

\* GET /api/export.csv?useBulk=1&preview= up to await shopifyGraphQL, which
\* raises without SHOP or TOKEN and otherwise asks the upstream for its
\* current operation
ExportUseBulk ==
    /\ ProcessRunning
    /\ ex.pc = "idle"
    /\ \E pv \in Previews \ {-1}, g \in GraphQLAnswers :
        ex' = IF GraphQLChecked(env) # NoError
              THEN [ExIdle EXCEPT !.pc = "done", !.preview = pv,
                                  !.resp = ErrorResponse(500, GraphQLChecked(env))]
              ELSE [ExIdle EXCEPT !.pc = "asked", !.preview = pv,
                                  !.answer = Answer(g, CurrentOperation(job))]
    /\ UNCHANGED <<job, nextId, submits, starts, file, dl, st, normVars, restVars, env>>

\* The export handler resumes with the answer: its own status check, then 303
ExportRedirect ==
    /\ ProcessRunning
    /\ ex.pc = "asked"
    /\ LET g == ex.answer.kind
           op == ex.answer.op IN
        ex' = IF g # "data"
              THEN [ex EXCEPT !.pc = "done", !.answer = NoAnswer, !.resp = GraphQLFailure(g)]
              ELSE
              [ex EXCEPT
               !.pc = IF op.status = "COMPLETED" THEN "redirected" ELSE "done",
               !.answer = NoAnswer,
               !.op = op,
               !.resp = IF op.status = "NONE"
                        THEN ErrorResponse(400,
                               Msg("No bulk operation found. Start one with /api/bulk/start", ""))
                        ELSE IF op.status # "COMPLETED"
                        THEN ErrorResponse(400, Msg("Bulk not ready. Status: ", op.status))
                        ELSE [kind |-> "redirect", status |-> 303]]
    /\ UNCHANGED <<job, nextId, submits, starts, file, dl, st, normVars, restVars, env>>

NextBulk ==
    \/ UpstreamProgress \/ BulkStartRefused \/ BulkStart \/ BulkStartAnswer
    \/ BulkStatus \/ BulkStatusAnswer
    \/ DownloadQuery \/ DownloadChecked \/ DownloadFetch \/ DownloadLine \/ DownloadEnd
    \/ ReadBehind \/ ExportUseBulk \/ ExportRedirect

----------------------------------------------------------------------------
(* Specifications *)

\* The normaliser on one raw order, in REST or bulk shape
InitNorm ==
    /\ env = Configured
    /\ order \in {AsRest(d) : d \in OrderData} \cup {AsBulk(d) : d \in OrderData}
    /\ row = NoRow
    /\ npc = "input"
    /\ RestIdle
    /\ BulkIdle
SpecNorm == InitNorm /\ [][NextNorm]_vars

\* The values a raw order can carry under order_number, orderNumber and name
NumberValues(v) == {Undef, Null, "", v}
\* The values it can carry under created_at / createdAt
DateInputs == {Undef, Null, "", "not-a-date"} \cup ValidDates
NoData == [landing |-> AbsentUrl, referring |-> AbsentUrl, note |-> AbsentAttrs,
           attributes |-> AbsentAttrs]
NamedOrders ==
    {[AsRest(NoData) EXCEPT !.order_number = n, !.name = m, !.created_at = t] :
        n \in NumberValues("1001"), m \in NumberValues("#1003"), t \in DateInputs}
    \cup
    {[AsBulk(NoData) EXCEPT !.order_number = n, !.orderNumber = c, !.name = m,
                            !.createdAt = t] :
        n \in NumberValues("1001"), c \in NumberValues("1002"),
        m \in NumberValues("#1003"), t \in DateInputs}

ApplyMapOrderNodeToRowIST ==
    /\ npc = "input"
    /\ row' = mapOrderNodeToRowIST(order)
    /\ npc' = "mapOrderNodeToRow (IST)"
    /\ UNCHANGED <<order, restVars, bulkVars, env>>

ApplyRestRowIST ==
    /\ npc = "input"
    /\ RestShaped(order)
    /\ row' = RestRowIST(order)
    /\ npc' = "fetchAllOrdersREST (IST)"
    /\ UNCHANGED <<order, restVars, bulkVars, env>>

NextNames == NextNorm \/ ApplyMapOrderNodeToRowIST \/ ApplyRestRowIST

\* One normaliser call on one raw order, over the order's number, name and
\* timestamp
InitNames ==
    /\ env = Configured
    /\ order \in NamedOrders
    /\ row = NoRow
    /\ npc = "input"
    /\ RestIdle
    /\ BulkIdle
SpecNames == InitNames /\ [][NextNames]_vars

\* One /api/orders or /api/export.csv request against an upstream
InitRest ==
    /\ env = Configured
    /\ NormIdle
    /\ BulkIdle
    /\ pages \in UpstreamPages
    /\ countResp = NoCountResp /\ req = NoReq /\ rpc = "idle"
    /\ url = 0 /\ mapped = <<>> /\ reqs = <<>> /\ thrown = NoError
    /\ shopifyTotal = NullTotal /\ resp = NoResp
SpecRest == InitRest /\ [][NextRest]_vars

\* Upstreams whose every page holds at least one order
FilledPages == {ps \in UpstreamPages : \A i \in 1..Len(ps) : Len(ps[i].orders) >= 1}

\* One call of fetchAllOrdersREST against such an upstream
InitFetch ==
    /\ env = Configured
    /\ NormIdle
    /\ BulkIdle
    /\ pages \in FilledPages
    /\ countResp = NoCountResp /\ req = NoReq /\ rpc = "idle"
    /\ url = 0 /\ mapped = <<>> /\ reqs = <<>> /\ thrown = NoError
    /\ shopifyTotal = NullTotal /\ resp = NoResp
NextFetch == Request \/ FetchPage \/ FetchPageAnswer

\* The step of FetchPage, told by the page request it adds, and the step of
\* FetchPageAnswer, told by the loop leaving its await. Every await of the
\* loop settles (the upstream answers each request), so a loop that can
\* issue its next request does issue it, and a suspended loop resumes.
PageRequested ==
    /\ rpc = "fetch" /\ url # 0 /\ Len(reqs) < MaxRequests
    /\ reqs' = Append(reqs, url)
PageAnswered ==
    /\ rpc = "await fetch"
    /\ rpc' \in {"fetch", "count", "done"}
SpecFetch ==
    InitFetch /\ [][NextFetch]_vars /\ WF_reqs(PageRequested) /\ WF_rpc(PageAnswered)

\* The bulk handlers against the upstream's single operation slot
InitBulk ==
    /\ env = Configured
    /\ NormIdle
    /\ RestIdle
    /\ job = NoJob /\ nextId = 1 /\ submits = 0 /\ starts = NoStarts
    /\ file = <<[kind |-> "bare", edges |-> <<NodeEdge(2)>>]>>
    /\ dl = DlIdle /\ st = StIdle /\ ex = ExIdle
SpecBulk == InitBulk /\ [][NextBulk]_vars

\* Downloads, directly and through the export's redirect, while callers
\* start operations and the upstream runs them
NextExport ==
    \/ UpstreamProgress \/ BulkStart \/ BulkStartAnswer
    \/ DownloadQuery \/ DownloadChecked \/ DownloadFetch \/ DownloadLine \/ DownloadEnd
    \/ ReadBehind \/ ExportUseBulk \/ ExportRedirect
SpecExport == InitBulk /\ [][NextExport]_vars

\* The operation a caller started is running, has failed or was cancelled
UnfinishedJobs ==
    {[id |-> 1, status |-> "RUNNING", errorCode |-> Null, url |-> Null],
     [id |-> 1, status |-> "CANCELED", errorCode |-> Null, url |-> Null]}
    \cup {[id |-> 1, status |-> "FAILED", errorCode |-> c, url |-> Null] : c \in ErrorCodes}

\* Status, download, export and further starts against such an operation
InitFailures ==
    /\ env = Configured
    /\ NormIdle
    /\ RestIdle
    /\ job \in UnfinishedJobs
    /\ nextId = 2 /\ submits = 1
    /\ starts = [n |-> 1, resp |-> Started(1), pending |-> <<>>]
    /\ file = <<>>
    /\ dl = DlIdle /\ st = StIdle /\ ex = ExIdle
NextFailures ==
    \/ BulkStartRefused \/ BulkStart \/ BulkStartAnswer \/ BulkStatus \/ BulkStatusAnswer
    \/ DownloadQuery \/ DownloadChecked \/ ExportUseBulk \/ ExportRedirect
SpecFailures == InitFailures /\ [][NextFailures]_vars

\* Starts, status calls and downloads of several callers against the one
\* slot, without the export's redirect
NextJobs ==
    \/ UpstreamProgress \/ BulkStart \/ BulkStartAnswer \/ BulkStatus \/ BulkStatusAnswer
    \/ DownloadQuery \/ DownloadChecked \/ DownloadFetch \/ DownloadLine \/ DownloadEnd
    \/ ReadBehind
SpecJobs == InitBulk /\ [][NextJobs]_vars

\* The download of a completed operation's result file
InitStream ==
    /\ env = Configured
    /\ NormIdle
    /\ RestIdle
    /\ job = [id |-> 1, status |-> "COMPLETED", errorCode |-> Null, url |-> "file"]
    /\ nextId = 2 /\ submits = 1
    /\ starts = [n |-> 1, resp |-> Started(1), pending |-> <<>>]
    /\ file \in Files
    /\ dl = DlIdle /\ st = StIdle /\ ex = ExIdle
NextStream ==
    \/ DownloadQuery \/ DownloadChecked \/ DownloadFetch \/ DownloadLine \/ DownloadEnd
    \/ ReadBehind \/ ClientDisconnect
SpecStream == InitStream /\ [][NextStream]_vars

----------------------------------------------------------------------------
(* The extractors on their own *)

MaxQuery == 2
MaxEntries == 2

\* Query parameters: the five fields (utm_source twice, with an empty value
\* too), another utm_ key, a key in upper case, a key that is no utm_ key.
QueryParams ==
    {<<"utm_source", "a">>, <<"utm_source", "b">>, <<"utm_source", "">>,
     <<"utm_medium", "m">>, <<"utm_campaign", "c">>, <<"utm_term", "t">>,
     <<"utm_content", "n">>, <<"utm_id", "i">>, <<"UTM_Source", "X">>, <<"ref", "r">>}

UrlInputs ==
    {AbsentUrl, BadUrl, [kind |-> "nonstring", params |-> <<>>]}
    \cup {[kind |-> k, params |-> p] :
            k \in {"url", "httprel"}, p \in SeqsUpTo(QueryParams, MaxQuery)}

\* Entries of an attribute array: {name, value} and {key, value} objects,
\* null, and an object whose name is a number.
ArrayEntries ==
    {[name |-> n, key |-> Undef, value |-> v] :
        n \in {"utm_source", "UTM_Source", "utm_source_x", "UTM_Campaign", "ref"},
        v \in {"", "a", "b"}}
    \cup {[name |-> Undef, key |-> "utm_medium", value |-> "k"],
          [name |-> NumberName, key |-> Undef, value |-> "a"],
          NullEntry}

\* Entries of a key -> value map, as Object.keys lists them: keys are unique
MapEntries ==
    {[name |-> n, key |-> Undef, value |-> v] :
        n \in {"utm_source", "UTM_Source", "utm_source_x", "UTM_Campaign", "ref"},
        v \in {"", "a", "b"}}

UniqueNames(e) == \A i, j \in 1..Len(e) : e[i].name = e[j].name => i = j

\* null, a string (neither array nor object), arrays and maps
AttrInputs ==
    {AbsentAttrs, [kind |-> "string", entries |-> <<>>]}
    \cup {[kind |-> "array", entries |-> e] : e \in SeqsUpTo(ArrayEntries, MaxEntries)}
    \cup {[kind |-> "map", entries |-> e] :
            e \in {m \in SeqsUpTo(MapEntries, MaxEntries) : UniqueNames(m)}}

\* What a caller of an extractor gets when it raises
Raised == [threw |-> "TypeError"]

ApplyExtractUtmFromUrl ==
    /\ npc = "url input"
    /\ row' = IF extractUtmFromUrlThrows(order.landing_site) THEN Raised
              ELSE extractUtmFromUrl(order.landing_site)
    /\ npc' = "extractUtmFromUrl"
    /\ UNCHANGED <<order, restVars, bulkVars, env>>

ApplyExtractUtmFromAttributes ==
    /\ npc = "attrs input"
    /\ row' = IF extractUtmFromAttributesThrows(order.note_attributes) THEN Raised
              ELSE extractUtmFromAttributes(order.note_attributes)
    /\ npc' = "extractUtmFromAttributes"
    /\ UNCHANGED <<order, restVars, bulkVars, env>>

NextExtract == ApplyExtractUtmFromUrl \/ ApplyExtractUtmFromAttributes

\* One extractor call on one input
InitExtract ==
    /\ env = Configured
    /\ \/ /\ npc = "url input"
          /\ order \in {[BlankOrder EXCEPT !.landing_site = u] : u \in UrlInputs}
       \/ /\ npc = "attrs input"
          /\ order \in {[BlankOrder EXCEPT !.note_attributes = a] : a \in AttrInputs}
    /\ row = NoRow
    /\ RestIdle
    /\ BulkIdle
SpecExtract == InitExtract /\ [][NextExtract]_vars

\* The download of a result file that can hold a line the normaliser raises
\* on, over a connection to the file that can fail
InitFaulty ==
    /\ env = Configured
    /\ NormIdle
    /\ RestIdle
    /\ job = [id |-> 1, status |-> "COMPLETED", errorCode |-> Null, url |-> "file"]
    /\ nextId = 2 /\ submits = 1
    /\ starts = [n |-> 1, resp |-> Started(1), pending |-> <<>>]
    /\ file \in FaultyFiles
    /\ dl = DlIdle /\ st = StIdle /\ ex = ExIdle
NextFaulty == NextStream \/ GunzipError
SpecFaulty == InitFaulty /\ [][NextFaulty]_vars

\* The download of a result file whose lines are any JSON value
InitLines ==
    /\ env = Configured
    /\ NormIdle
    /\ RestIdle
    /\ job = [id |-> 1, status |-> "COMPLETED", errorCode |-> Null, url |-> "file"]
    /\ nextId = 2 /\ submits = 1
    /\ starts = [n |-> 1, resp |-> Started(1), pending |-> <<>>]
    /\ file \in JsonFiles
    /\ dl = DlIdle /\ st = StIdle /\ ex = ExIdle
SpecLines == InitLines /\ [][NextStream]_vars

\* The operations that call the upstream, started without SHOP or TOKEN
InitConfig ==
    /\ env \in Environments \ {Configured}
    /\ NormIdle
    /\ pages \in {WithStatus(ps, 0) : ps \in PageSets(1, 1, 0)}
    /\ countResp = NoCountResp /\ req = NoReq /\ rpc = "idle"
    /\ url = 0 /\ mapped = <<>> /\ reqs = <<>> /\ thrown = NoError
    /\ shopifyTotal = NullTotal /\ resp = NoResp
    /\ job = NoJob /\ nextId = 1 /\ submits = 0 /\ starts = NoStarts
    /\ file = <<>> /\ dl = DlIdle /\ st = StIdle /\ ex = ExIdle
NextConfig ==
    \/ Request \/ RequestWithoutRange \/ RequestFirstListing
    \/ BulkStart \/ BulkStartAnswer \/ BulkStatus \/ BulkStatusAnswer
    \/ DownloadQuery \/ DownloadChecked \/ ExportUseBulk
SpecConfig == InitConfig /\ [][NextConfig]_vars

----------------------------------------------------------------------------
(* The CSV text written by the bulk download and by the export, on characters *)

MaxRows == 2

DoubleQuote == "\""
Comma == ","
Backslash == "\\"
Newline == "\n"

\* A cell of a row: null, undefined or a string
NullCell == [t |-> "null", chars |-> <<>>]
UndefCell == [t |-> "undefined", chars |-> <<>>]
StringCell(cs) == [t |-> "string", chars |-> cs]

\* r[k] === null || r[k] === undefined ? '' : String(r[k])
CellText(v) == IF v.t \in {"null", "undefined"} THEN <<>> ELSE v.chars

\* v.replace(/"/g, '""')
RECURSIVE EscapeQuotes(_)
EscapeQuotes(cs) ==
    IF cs = <<>> THEN <<>>
    ELSE (IF Head(cs) = DoubleQuote THEN <<DoubleQuote, DoubleQuote>> ELSE <<Head(cs)>>)
         \o EscapeQuotes(Tail(cs))

\* '"' + v.replace(/"/g, '""') + '"'
QuotedCell(v) == <<DoubleQuote>> \o EscapeQuotes(CellText(v)) \o <<DoubleQuote>>

\* Array.prototype.join(',') over pieces of text
RECURSIVE JoinComma(_)
JoinComma(parts) ==
    IF parts = <<>> THEN <<>>
    ELSE IF Len(parts) = 1 THEN parts[1]
    ELSE parts[1] \o <<Comma>> \o JoinComma(Tail(parts))

\* columns.map(k => quoted cell).join(',')
RowText(r) == JoinComma([i \in 1..Len(Columns) |-> QuotedCell(r[Columns[i]])])

\* The string literal '\\n' of the bulk download: a backslash and the letter n
BulkLineEnd == <<Backslash, "n">>
\* The string literal '\n' of the export: one newline character
ExportLineEnd == <<Newline>>

RECURSIVE WriteLines(_, _)
WriteLines(rows, lineEnd) ==
    IF rows = <<>> THEN <<>>
    ELSE RowText(Head(rows)) \o lineEnd \o WriteLines(Tail(rows), lineEnd)

\* res.write(columns.join(',') + lineEnd)
CsvHeader(lineEnd) == JoinComma([i \in 1..Len(Columns) |-> Chars(Columns[i])]) \o lineEnd

\* The header, then res.write(line + lineEnd) per row
CsvText(rows, lineEnd) == CsvHeader(lineEnd) \o WriteLines(rows, lineEnd)

\* Cell values: null, undefined, plain text, and text holding a double quote,
\* a comma and a newline
CellValues ==
    {NullCell, UndefCell, StringCell(<<"a">>),
     StringCell(<<"b", DoubleQuote, Comma, "c">>), StringCell(<<"d", Newline>>)}
SourceValues == {StringCell(<<>>), StringCell(<<DoubleQuote, DoubleQuote, Comma>>)}

BlankCsvRow == [k \in {Columns[i] : i \in 1..Len(Columns)} |-> StringCell(<<>>)]
CsvRows ==
    {[BlankCsvRow EXCEPT !.order_number = n, !.utm_source = s] :
        n \in CellValues, s \in SourceValues}
CsvInputs == SeqsUpTo(CsvRows, MaxRows)

\* The bulk download writes the header line and is suspended at
\* for await (const line of rl); written counts the rows written so far
BulkDownloadCsvHeader ==
    /\ npc = "csv input"
    /\ row' = [text |-> CsvHeader(BulkLineEnd), written |-> 0]
    /\ npc' = "bulk download rows"
    /\ UNCHANGED <<order, restVars, bulkVars, env>>

\* One turn of the loop, each line of the file holding one row: the row is
\* written and the handler is suspended again
BulkDownloadCsvRow ==
    /\ npc = "bulk download rows"
    /\ row.written < Len(order)
    /\ row' = [text |-> row.text \o RowText(order[row.written + 1]) \o BulkLineEnd,
               written |-> row.written + 1]
    /\ UNCHANGED <<order, npc, restVars, bulkVars, env>>

\* The input has ended: res.end()
BulkDownloadCsvEnd ==
    /\ npc = "bulk download rows"
    /\ row.written = Len(order)
    /\ npc' = "bulk download csv"
    /\ UNCHANGED <<order, row, restVars, bulkVars, env>>

\* The export writes the header and every row in one synchronous loop
ApplyExportCsv ==
    /\ npc = "csv input"
    /\ row' = [text |-> CsvText(order, ExportLineEnd)]
    /\ npc' = "export csv"
    /\ UNCHANGED <<order, restVars, bulkVars, env>>

NextCsv ==
    \/ BulkDownloadCsvHeader \/ BulkDownloadCsvRow \/ BulkDownloadCsvEnd
    \/ ApplyExportCsv

\* One CSV serialisation of one sequence of rows
InitCsv ==
    /\ env = Configured
    /\ npc = "csv input"
    /\ order \in CsvInputs
    /\ row = NoRow
    /\ RestIdle
    /\ BulkIdle
SpecCsv == InitCsv /\ [][NextCsv]_vars

----------------------------------------------------------------------------
(* The page window of /api/orders, from the query strings *)

MaxSorted == 3

\* A JavaScript number: an integer or NaN
Num(n) == [nan |-> FALSE, n |-> n]
NaN == [nan |-> TRUE, n |-> 0]

\* parseInt(s, 10) of the query strings used here
ParseInt(s) ==
    CASE s \in {"", "abc"} -> NaN
      [] s = "0" -> Num(0)
      [] s = "-1" -> Num(-1)
      [] s = "1" -> Num(1)
      [] s = "2" -> Num(2)
      [] s = "3" -> Num(3)
      [] s = "2abc" -> Num(2)
      [] s = "100" -> Num(100)
      [] s = "5000" -> Num(5000)

\* Math.max, Math.min: NaN when an argument is NaN
MathMax(a, b) == IF a.nan \/ b.nan THEN NaN ELSE Num(Max(a.n, b.n))
MathMin(a, b) == IF a.nan \/ b.nan THEN NaN ELSE Num(Min(a.n, b.n))
\* a - b, a * b, a + b
Minus(a, b) == IF a.nan \/ b.nan THEN NaN ELSE Num(a.n - b.n)
Times(a, b) == IF a.nan \/ b.nan THEN NaN ELSE Num(a.n * b.n)
Plus(a, b) == IF a.nan \/ b.nan THEN NaN ELSE Num(a.n + b.n)

\* The index Array.prototype.slice makes of an argument: NaN is 0, a
\* negative one counts from the end, all clamped to 0..len
SliceIndex(a, len) ==
    IF a.nan THEN 0
    ELSE IF a.n < 0 THEN Max(len + a.n, 0)
    ELSE Min(a.n, len)

\* mapped.slice(startIdx, startIdx + ps)
SliceJs(rows, from, to) ==
    SubSeq(rows, SliceIndex(from, Len(rows)) + 1, SliceIndex(to, Len(rows)))

\* const { page = '1', pageSize = '100' } = req.query
QueryDefault(v, d) == IF v = Undef THEN d ELSE v

\* p, ps, startIdx and pageRows of the handler, and the body it answers
PageWindow(rows, page, pageSize) ==
    LET p == MathMax(Num(1), ParseInt(QueryDefault(page, "1")))
        ps == MathMax(Num(1), MathMin(Num(1000), ParseInt(QueryDefault(pageSize, "100"))))
        startIdx == Times(Minus(p, Num(1)), ps)
    IN [total |-> Len(rows), page |-> p, pageSize |-> ps,
        orders |-> SliceJs(rows, startIdx, Plus(startIdx, ps))]

\* page and pageSize of the query: missing, empty, non-numeric, zero,
\* negative, small, with trailing text, oversized
PageParams == {Undef, "", "abc", "0", "-1", "1", "2", "3", "2abc", "5000"}
\* The sorted rows, by their rank
SortedRows == {[i \in 1..n |-> i] : n \in 0..MaxSorted}

ApplyPageWindow ==
    /\ npc = "page input"
    /\ row' = PageWindow(order.rows, order.page, order.pageSize)
    /\ npc' = "page window"
    /\ UNCHANGED <<order, restVars, bulkVars, env>>

\* One page window of one sorted list
InitPaging ==
    /\ env = Configured
    /\ npc = "page input"
    /\ order \in [rows : SortedRows, page : PageParams, pageSize : PageParams]
    /\ row = NoRow
    /\ RestIdle
    /\ BulkIdle
SpecPaging == InitPaging /\ [][ApplyPageWindow]_vars

Init ==
    \/ InitNorm \/ InitRest \/ InitBulk \/ InitStream \/ InitExtract \/ InitConfig
    \/ InitFaulty \/ InitCsv \/ InitNames \/ InitLines \/ InitFetch
    \/ InitPaging \/ InitFailures
Next ==
    \/ NextNorm \/ NextRest \/ NextBulk \/ NextStream \/ NextExtract \/ NextFaulty
    \/ NextCsv \/ NextNames \/ ApplyPageWindow
Spec == Init /\ [][Next]_vars

----------------------------------------------------------------------------
(* Claims *)

\* The five utm values extracted from each source of the raw order
LandingUtmOf(o) == extractUtmFromUrl(DataOf(o).landing)
ReferringUtmOf(o) == extractUtmFromUrl(DataOf(o).referring)
NoteUtmOf(o) == extractUtmFromAttributes(OrAttrs(DataOf(o).note, DataOf(o).attributes))

\* First non-empty of landing, referring, note; '' when all are empty
PrecedenceValue(o, k) ==
    IF LandingUtmOf(o)[k] # "" THEN LandingUtmOf(o)[k]
    ELSE IF ReferringUtmOf(o)[k] # "" THEN ReferringUtmOf(o)[k]
    ELSE IF NoteUtmOf(o)[k] # "" THEN NoteUtmOf(o)[k]
    ELSE ""

\* C1: for every raw order and each of the five utm fields, the row built by
\* mapOrderToRow / mapOrderNodeToRow holds the landing-site value if it is
\* non-empty, else the referring-site value if non-empty, else the
\* note/custom attribute value, else ''.
C1_Precedence ==
    npc \in {"mapOrderToRow", "mapOrderNodeToRow"} =>
        \A k \in UtmSet : row[k] = PrecedenceValue(order, k)

\* C1 witness: one row takes utm_campaign from the landing site and, the
\* landing site having no utm_source, utm_source from the referring site
\* although the note attributes offer one too.
C1_Witness ==
    /\ npc = "mapOrderToRow"
    /\ LandingUtmOf(order)["utm_campaign"] = "land"
    /\ LandingUtmOf(order)["utm_source"] = ""
    /\ ReferringUtmOf(order)["utm_source"] = "ref"
    /\ NoteUtmOf(order)["utm_source"] = "note"
    /\ row["utm_source"] = "ref"
    /\ row["utm_campaign"] = "land"

\* C2: the row fetchAllOrdersREST pushes for an order has the keys and the
\* five utm values of the normaliser's row for the same order data in bulk
\* shape (landing -> referring -> note precedence).
C2_RestRowIsNormalizerRow ==
    npc = "fetchAllOrdersREST" =>
        LET bulkRow == mapOrderNodeToRow(AsBulk(DataOf(order)))
        IN /\ DOMAIN row = DOMAIN bulkRow
           /\ \A k \in UtmSet : row[k] = bulkRow[k]

----------------------------------------------------------------------------

RECURSIVE AllOrders(_)
\* The orders of all pages, in delivery order
AllOrders(ps) == IF ps = <<>> THEN <<>> ELSE ps[1].orders \o AllOrders(Tail(ps))

\* The pages form one chain of rel="next" links, the last page has none,
\* and every page answers 200.
IsChain(ps) ==
    \A i \in 1..Len(ps) :
        /\ ps[i].status = 200
        /\ ps[i].link = IF i < Len(ps)
                        THEN PrevPart(i) \o <<LinkEntry(i + 1, "; ", "next")>>
                        ELSE PrevPart(i)

\* fetchAllOrdersREST has returned its rows and the handler has not yet
\* sorted them
Returned ==
    /\ req.endpoint \in {"orders", "export"}
    /\ \/ rpc = "count"
       \/ rpc = "done" /\ resp.kind = "csv"

\* fetchAllOrders has returned the raw orders to its handler
ReturnedAll == rpc = "fetched"

\* C3: on a chain of N successful pages holding fewer orders than the cap,
\* the fetcher (fetchAllOrdersREST, and fetchAllOrders, which has no cap)
\* returns one entry per order of all pages, in delivery order, and has
\* requested each page exactly once.
C3_Concatenation ==
    (/\ IsChain(pages)
     /\ \/ Returned /\ Len(AllOrders(pages)) < req.cap
        \/ ReturnedAll) =>
        /\ Len(mapped) = Len(AllOrders(pages))
        /\ \A i \in 1..Len(mapped) : mapped[i].id = IdNames[AllOrders(pages)[i]]
        /\ reqs = [i \in 1..Len(pages) |-> i]

\* C3 witness: a two-page chain with orders on both pages, fetched under a
\* small cap that is still above the total
C3_Witness ==
    /\ rpc = "count"
    /\ IsChain(pages)
    /\ Len(pages) = 2
    /\ Len(pages[1].orders) = 1
    /\ Len(pages[2].orders) = 1
    /\ req.cap = 3
    /\ Len(mapped) = 2
    /\ reqs = <<1, 2>>

\* C4: for every non-negative cap the returned rows never exceed the cap.
C4_CapRespected ==
    (Returned /\ req.cap >= 0) => Len(mapped) <= req.cap

\* The fetcher has issued a page request and is suspended until its answer
AwaitingPage == rpc \in {"await fetch", "await fetchAll"}

\* C5: a non-success page response aborts the fetch with one error carrying
\* that status and body; the request it answers is the last request issued,
\* and once the fetcher has seen the answer the response to the caller is an
\* error without rows.
C5_AbortOnFailure ==
    \A i \in 1..Len(reqs) :
        pages[reqs[i]].status # 200 =>
            /\ i = Len(reqs)
            /\ \/ AwaitingPage /\ thrown = NoError /\ resp = NoResp
               \/ /\ rpc = "done"
                  /\ thrown.status = pages[reqs[i]].status
                  /\ thrown.body = pages[reqs[i]].body
                  /\ resp = [kind |-> "error", status |-> 500, error |-> thrown]

\* C5 witness: the second page fails after the first delivered rows
C5_Witness ==
    /\ Len(reqs) = 2
    /\ pages[reqs[1]].status = 200
    /\ Len(pages[reqs[1]].orders) > 0
    /\ pages[reqs[2]].status = 429
    /\ mapped # <<>>
    /\ rpc = "done"
    /\ resp.kind = "error"
    /\ resp.error.status = 429

\* C6: a count response without a valid integer count makes the probe fail;
\* it is never turned into 0.
C6_MissingCountFails ==
    (rpc = "done" /\ countResp.kind = "ok" /\ countResp.count.t # "num") =>
        /\ fetchOrdersCount(countResp).threw
        /\ shopifyTotal = NullTotal

\* C7: when the count probe fails after a successful fetch, /api/orders
\* answers 200 with the requested page of the fetched rows and a null
\* upstream total.
C7_CountFailureTolerated ==
    (rpc = "done" /\ req.endpoint = "orders" /\ countResp.kind \in {"http", "network"}) =>
        /\ resp.kind = "json"
        /\ resp.status = 200
        /\ resp.shopify_total = NullTotal
        /\ resp.total_fetched = Len(mapped)
        /\ resp.orders = Slice(mapped, (req.page - 1) * req.pageSize,
                                       req.page * req.pageSize)
        /\ thrown = NoError

\* C7 witness: rows were fetched, the count endpoint answered 500
C7_Witness ==
    /\ rpc = "done"
    /\ req.endpoint = "orders"
    /\ countResp.kind = "http"
    /\ resp.kind = "json"
    /\ Len(resp.orders) = 2
    /\ resp.shopify_total = NullTotal

----------------------------------------------------------------------------

Ready(op) == op.status = "COMPLETED" /\ op.url # Null

\* C8: the download requests the file and emits CSV (header or rows) only
\* when the operation the upstream reported to that request is COMPLETED
\* with a url; otherwise it answers with an error and no CSV, also when it
\* is reached through the redirect of /api/export.csv?useBulk=1.
C8_DownloadOnlyWhenReady ==
    /\ (dl.pc \in {"fetch", "stream"} \/ dl.header \/ dl.lines # <<>> \/ dl.resp.kind = "csv")
            => Ready(dl.op)
    /\ (dl.pc = "done" /\ ~Ready(dl.op)) =>
            dl.resp.kind = "error" /\ ~dl.header /\ dl.lines = <<>>

\* C8 witness: the export saw operation 1 completed and redirected; a new
\* operation was started before the download, which answers not ready.
C8_Witness ==
    /\ dl.via = "export"
    /\ ex.op.status = "COMPLETED"
    /\ ex.op.id = 1
    /\ dl.op.id = 2
    /\ dl.op.status # "COMPLETED"
    /\ dl.pc = "done"
    /\ dl.resp.kind = "error"
    /\ ~dl.header

\* An error response carries the operation's error code
CarriesErrorCode(r, op) ==
    /\ r.kind = "error"
    /\ op.errorCode # Null => op.errorCode \in {r.error.msg, r.error.body}

\* C9: for a failed or cancelled operation, status, download and bulk export
\* surface the failure with the upstream error code, distinguishable from
\* the not-ready answer for a running operation; nothing re-submits a job.
C9_FailureSurfaced ==
    /\ (dl.pc = "done" /\ dl.op.status \in {"FAILED", "CANCELED"}) =>
            /\ CarriesErrorCode(dl.resp, dl.op)
            /\ dl.resp.error.msg # "Bulk operation not ready. Status: "
    /\ (ex.pc = "done" /\ ex.op.status \in {"FAILED", "CANCELED"}) =>
            /\ CarriesErrorCode(ex.resp, ex.op)
            /\ ex.resp.error.msg # "Bulk not ready. Status: "
    /\ (st.resp.kind = "json" /\ st.resp.body.status \in {"FAILED", "CANCELED"}) =>
            st.resp.body.errorCode \in ErrorCodes \cup {Null}
    /\ submits <= starts.n + Len(starts.pending)

----------------------------------------------------------------------------

\* The nodes whose rows a file yields, in file order: a malformed or blank
\* line none, an edges line one per edge that has a node, a node wrapper and
\* a bare object one each.
RECURSIVE ExpectedNodes(_)
ExpectedNodes(f) ==
    IF f = <<>> THEN <<>>
    ELSE LET l == f[1]
             here == IF l.kind \in {"blank", "malformed"} THEN <<>>
                     ELSE IF l.kind = "edges"
                     THEN SelectSeq(l.edges, LAMBDA e : e.kind = "node")
                     ELSE <<l.edges[1]>>
         IN [i \in 1..Len(here) |-> here[i].node] \o ExpectedNodes(Tail(f))

ExpectedLines(f) ==
    [i \in 1..Len(ExpectedNodes(f)) |-> CsvLine(mapOrderNodeToRow(BulkNode(ExpectedNodes(f)[i])))]

\* C10: without a preview limit, a malformed line is skipped and the stream
\* goes on: after each line the rows written are exactly the rows of the
\* well-formed lines read so far, and the finished response holds the rows
\* of all well-formed lines in file order.
C10_MalformedSkipped ==
    /\ dl.header => dl.pc \in {"stream", "done"}
    /\ (dl.pc = "stream" /\ dl.preview = 0) =>
            dl.lines = ExpectedLines(SubSeq(file, 1, dl.li - 1))
    /\ (dl.pc = "done" /\ dl.header /\ dl.preview = 0) =>
            /\ dl.resp.kind = "csv"
            /\ dl.resp.lines = ExpectedLines(file)

\* C10 witness: a file with a malformed line before an edges line is
\* downloaded to its end and yields the rows of the edges line
C10_Witness ==
    /\ dl.pc = "done"
    /\ dl.preview = 0
    /\ Len(file) = 2
    /\ file[1].kind = "malformed"
    /\ file[2].kind = "edges"
    /\ Len(file[2].edges) = 3
    /\ dl.resp.kind = "csv"
    /\ Len(dl.resp.lines) = 2

----------------------------------------------------------------------------

\* C11: a finished bulk download is one header line followed by
\* min(previewLimit, T) rows of the T rows the file yields when previewLimit
\* is positive, and by all T rows when it is absent, zero or negative.
C11_PreviewTruncation ==
    (dl.pc = "done" /\ dl.header) =>
        LET all == ExpectedLines(file)
            n == IF dl.preview > 0 THEN Min(dl.preview, Len(all)) ELSE Len(all)
        IN /\ dl.resp.kind = "csv"
           /\ dl.resp.header = Columns
           /\ dl.resp.lines = SubSeq(all, 1, n)

\* C11, positive limits only: the part of the statement the code meets,
\* also when the limit falls inside a line with several edges
C11_PositivePreview ==
    (dl.pc = "done" /\ dl.header /\ dl.preview > 0) =>
        /\ dl.resp.kind = "csv"
        /\ dl.resp.lines =
             SubSeq(ExpectedLines(file), 1, Min(dl.preview, Len(ExpectedLines(file))))

\* The download stopped because previewLimit rows had been written.
PreviewReached ==
    /\ dl.pc = "done"
    /\ dl.header
    /\ dl.preview # 0
    /\ dl.count >= dl.preview

\* C12: when a bulk download reaches its previewLimit, the response body
\* stream and the decompression stream have been closed by the time the
\* response is ended.
C12_StreamsClosedOnPreview ==
    PreviewReached => (dl.body \notin {"open"} /\ dl.gunzip \notin {"open", "paused"})

\* C12, the part the code meets: once the limit is reached no further row
\* is written, whatever is read from the rest of the file
C12_NoRowWrittenAfterPreview ==
    [][PreviewReached => (dl'.lines = dl.lines /\ dl'.resp = dl.resp)]_vars

\* C12: the lines of the file that follow the one on which the limit was
\* reached are never read
C12_NoLineReadAfterPreview ==
    [][PreviewReached => dl'.li = dl.li]_vars

\* C17: after the client has disconnected from a streaming bulk download no
\* further line is read from the file or written to the response.
C17_TeardownOnDisconnect ==
    [][(dl.client = "gone") => (dl'.li = dl.li /\ dl'.lines = dl.lines)]_vars

----------------------------------------------------------------------------

\* C13: extractUtmFromUrl and extractUtmFromAttributes never throw and
\* always return a record holding the five utm keys, whatever the input.
C13_ExtractorsTotal ==
    npc \in {"extractUtmFromUrl", "extractUtmFromAttributes"} =>
        /\ row # Raised
        /\ UtmSet \subseteq DOMAIN row

\* C13, the URL extractor alone, which the code meets: malformed strings and
\* non-string values included, it returns a record with the five keys
C13_UrlExtractorTotal ==
    npc = "extractUtmFromUrl" => (row # Raised /\ UtmSet \subseteq DOMAIN row)

\* The values of the query parameters named k, in order
ValuesOf(params, k) ==
    LET named == SelectSeq(params, LAMBDA kv : kv[1] = k)
    IN {named[i][2] : i \in 1..Len(named)}

\* C18: for a URL carrying query parameters, absolute or relative,
\* extractUtmFromUrl returns under each of the five fields the value of the
\* parameter of that name, and '' for a field the URL does not carry; a
\* malformed URL yields five empty fields.
C18_UrlFieldsExact ==
    npc = "extractUtmFromUrl" =>
        LET u == order.landing_site IN
        /\ u.kind \in {"url", "httprel"} =>
              \A k \in UtmSet :
                 IF ValuesOf(u.params, k) = {} THEN row[k] = ""
                 ELSE row[k] \in ValuesOf(u.params, k)
        /\ u.kind = "bad" => \A k \in UtmSet : row[k] = ""

\* C18, for the URLs that new URL() accepts after the 'http' prefix test
C18_ParsedUrlFieldsExact ==
    (npc = "extractUtmFromUrl" /\ order.landing_site.kind = "url") =>
        \A k \in UtmSet :
           IF ValuesOf(order.landing_site.params, k) = {} THEN row[k] = ""
           ELSE row[k] \in ValuesOf(order.landing_site.params, k)

\* The positions of the entries whose lower-cased key contains field k and
\* whose value is non-empty
MatchingAt(entries, k) ==
    {i \in 1..Len(entries) :
        /\ entries[i].value # ""
        /\ Includes(ToLowerCase(Chars(Or(entries[i].name, Or(entries[i].key, "")))), Chars(k))}

FirstOf(S) == CHOOSE i \in S : \A j \in S : i <= j

\* C19: for an attribute collection (array of pairs, or map) each field is
\* the value of the first entry, in collection order, whose key contains the
\* field name case-insensitively and whose value is non-empty; '' if none.
C19_FirstMatchWins ==
    (npc = "extractUtmFromAttributes" /\ row # Raised) =>
        LET e == order.note_attributes.entries IN
        \A k \in UtmSet :
           row[k] = IF MatchingAt(e, k) = {} THEN ""
                    ELSE e[FirstOf(MatchingAt(e, k))].value

\* C19 witness: two entries match utm_source with different non-empty
\* values, the second under an upper-case key; the first one's value is kept
C19_Witness ==
    /\ npc = "extractUtmFromAttributes"
    /\ order.note_attributes.kind = "array"
    /\ Len(order.note_attributes.entries) = 2
    /\ order.note_attributes.entries[1] = [name |-> "utm_source_x", key |-> Undef, value |-> "a"]
    /\ order.note_attributes.entries[2] = [name |-> "UTM_Source", key |-> Undef, value |-> "b"]
    /\ row # Raised
    /\ row.utm_source = "a"

----------------------------------------------------------------------------

\* The answer every handler gives when a helper raises the configuration
\* error: 500 { error: 'Missing SHOP or TOKEN env vars' }
ConfigErrorResponse == ErrorResponse(500, ConfigError([shop |-> FALSE, token |-> FALSE]))

\* A request refused for its own parameters, before any helper is called
InputRefused(r) == r.kind = "error" /\ r.status = 400

\* C14: with SHOP or TOKEN missing, the REST fetch and the bulk start,
\* status and download (also behind the export's useBulk branch) all answer
\* with the configuration error and no request reaches the network.
C14_ConfigErrorBeforeIO ==
    ConfigError(env) # NoError =>
        /\ reqs = <<>>
        /\ resp # NoResp => (resp = ConfigErrorResponse \/ InputRefused(resp))
        /\ starts.resp # NoResp => starts.resp = ConfigErrorResponse
        /\ st.resp # NoResp => st.resp = ConfigErrorResponse
        /\ dl.resp # NoResp => dl.resp = ConfigErrorResponse
        /\ ex.resp # NoResp => ex.resp = ConfigErrorResponse

\* C14, the REST fetch alone, which checks SHOP and TOKEN first
C14_RestConfigError ==
    (ConfigError(env) # NoError /\ rpc = "done" /\ ~InputRefused(resp)) =>
        (resp = ConfigErrorResponse /\ reqs = <<>>)

----------------------------------------------------------------------------

\* C15: a bulk download that fails, also after the CSV header has been
\* written (the file request, the decompression, the normalising of a
\* line), leaves the caller with one structured error; and a response ended
\* as CSV without the preview limit being reached holds every row of the file.
C15_SingleStructuredError ==
    /\ dl.pc = "failed" => (dl.resp.kind = "error" /\ dl.resp.status = 500)
    /\ (dl.pc = "done" /\ dl.resp.kind = "csv" /\ ~PreviewReached) =>
            dl.resp.lines = ExpectedLines(file)

\* C15, failures before the header is written, which the code reports: the
\* file request answered with a non-success status gives a 500 error
C15_ErrorBeforeHeader ==
    (dl.pc = "done" /\ ~dl.header /\ dl.op.status = "COMPLETED" /\ dl.op.url # Null) =>
        (dl.resp.kind = "error" /\ dl.resp.status = 500 /\ dl.lines = <<>>)

----------------------------------------------------------------------------

\* C16: status and download keep no memory of a started job: the upstream's
\* answer to each call is the operation that is its current one at the
\* moment that call asks, whoever started it and whatever was started or
\* answered before, and what the call reports, checks and serves is the
\* operation of that answer.
C16_NoJobMemory ==
    [][/\ (st.pc = "idle" /\ st'.pc = "asked" /\ st'.answer.kind = "data") =>
                st'.answer.op = job
       /\ (st.pc = "asked" /\ st'.pc = "idle" /\ st'.resp.kind = "json") =>
                st'.resp.body = st.answer.op
       /\ (dl.pc = "idle" /\ dl'.pc = "asked" /\ dl'.answer.kind = "data") =>
                dl'.answer.op = job
       /\ (dl.pc = "asked" /\ dl'.pc # "asked" /\ dl.answer.kind = "data") =>
                dl'.op = dl.answer.op]_vars

\* C16 witness: a first job was started, then a second one; the status call
\* and the download that followed both saw the second job, and the download
\* served its file
C16_Witness ==
    /\ starts.n >= 2
    /\ job.id = 2
    /\ st.resp.kind = "json"
    /\ st.resp.body.id = 2
    /\ dl.pc = "done"
    /\ dl.op.id = 2
    /\ dl.resp.kind = "csv"

----------------------------------------------------------------------------

\* The created_at the upstream delivered for the order with this id
RawCreatedAt(id) ==
    CreatedAtOf(CHOOSE n \in 1..Len(IdNames) : IdNames[n] = id)

\* res.json({ total_fetched: ... }), { total: ... } in the first listing
TotalReported(r) == IF "total" \in DOMAIN r THEN r.total ELSE r.total_fetched

\* C20: the rows of an /api/orders answer are ordered by descending raw
\* creation timestamp, the value the upstream delivered, and the page
\* returned is cut from that order.
C20_SortedByRawTimestamp ==
    (rpc = "done" /\ resp.kind = "json") =>
        LET startIdx == (req.page - 1) * req.pageSize
            n == Max(0, Min(req.pageSize, Len(mapped) - startIdx))
        IN /\ \A i, j \in 1..Len(mapped) :
                i < j => DateValue(RawCreatedAt(mapped[i].id)) >=
                         DateValue(RawCreatedAt(mapped[j].id))
           /\ TotalReported(resp) = Len(mapped)
           /\ Len(resp.orders) = n
           /\ \A i \in 1..n : resp.orders[i] = mapped[startIdx + i]

\* C20 witness: three orders fetched oldest first are answered newest
\* first, and page 2 of size 1 is the second newest
C20_Witness ==
    /\ rpc = "done"
    /\ resp.kind = "json"
    /\ Len(mapped) = 3
    /\ <<mapped[1].id, mapped[2].id, mapped[3].id>> = <<"2", "1", "3">>
    /\ req.page = 2
    /\ req.pageSize = 1
    /\ Len(resp.orders) = 1
    /\ resp.orders[1].id = "1"

\* A standard CSV reader (RFC 4180 quoting, the newline character ends a
\* record), one character at a time; it gives up on text after a closing
\* quote that is neither a quote, a comma nor a newline
CsvStart == [recs |-> <<>>, rec |-> <<>>, field |-> <<>>, mode |-> "begin"]

CsvStep(a, c) ==
    CASE a.mode = "quoted" ->
            IF c = DoubleQuote THEN [a EXCEPT !.mode = "closing"]
            ELSE [a EXCEPT !.field = Append(@, c)]
      [] a.mode \in {"begin", "start"} /\ c = DoubleQuote -> [a EXCEPT !.mode = "quoted"]
      [] a.mode = "closing" /\ c = DoubleQuote ->
            [a EXCEPT !.field = Append(@, c), !.mode = "quoted"]
      [] a.mode = "closing" /\ c \notin {Comma, Newline} -> [a EXCEPT !.mode = "malformed"]
      [] OTHER ->
            IF c = Comma
            THEN [a EXCEPT !.rec = Append(@, a.field), !.field = <<>>, !.mode = "start"]
            ELSE IF c = Newline
            THEN [recs |-> Append(a.recs, Append(a.rec, a.field)), rec |-> <<>>,
                  field |-> <<>>, mode |-> "begin"]
            ELSE [a EXCEPT !.field = Append(@, c), !.mode = "plain"]

\* The reader's state after the characters lo..hi of the text, from state a
RECURSIVE ReadCsv(_, _, _, _)
ReadCsv(text, lo, hi, a) ==
    IF lo > hi THEN a
    ELSE IF lo = hi THEN CsvStep(a, text[lo])
    ELSE LET mid == (lo + hi) \div 2
             left == ReadCsv(text, lo, mid, a)
         IN IF left.mode = "malformed" THEN left ELSE ReadCsv(text, mid + 1, hi, left)

\* The records read from a text, or no records when it is malformed
ParseCsv(text) ==
    LET a == ReadCsv(text, 1, Len(text), CsvStart)
    IN [ok |-> a.mode # "malformed",
        recs |-> CASE a.mode = "malformed" -> <<>>
                   [] a.mode = "begin" -> a.recs
                   [] OTHER -> Append(a.recs, Append(a.rec, a.field))]

\* The records a reader should get back: the column names, then per row the
\* text of each cell
ExpectedRecords(rows) ==
    <<[i \in 1..Len(Columns) |-> Chars(Columns[i])]>>
    \o [j \in 1..Len(rows) |-> [i \in 1..Len(Columns) |-> CellText(rows[j][Columns[i]])]]

\* C21: the CSV text written for a sequence of rows is a header line and one
\* line per row, each ended by a newline character, every value in double
\* quotes with inner quotes doubled and null/undefined as an empty cell, so a
\* standard CSV reader gets the column names and every original value back.
C21_CsvRoundTrip ==
    npc \in {"bulk download csv", "export csv"} =>
        /\ ParseCsv(row.text).ok
        /\ ParseCsv(row.text).recs = ExpectedRecords(order)

\* C21 for the export alone, whose line end is the newline character
C21_ExportCsvRoundTrip ==
    npc = "export csv" =>
        /\ ParseCsv(row.text).ok
        /\ ParseCsv(row.text).recs = ExpectedRecords(order)

\* C22: an export request that names columns gets exactly those columns, in
\* the caller's order, in the header and in every row.
C22_CallerColumns ==
    (rpc = "done" /\ req.endpoint = "export" /\ resp.kind = "csv" /\ req.columns # <<>>) =>
        /\ resp.header = req.columns
        /\ \A i \in 1..Len(resp.lines) :
              resp.lines[i] = [j \in 1..Len(req.columns) |-> CsvCell(mapped[i], req.columns[j])]

\* C22 in the first listing of server.js, which hands the caller's columns
\* to csv-stringify: header and cells are the caller's, in the caller's order
C22_FirstListingColumns ==
    (rpc = "done" /\ req.endpoint = "export (first listing)" /\ resp.kind = "csv") =>
        /\ resp.header = ColumnsOrDefault(req.columns)
        /\ Len(resp.lines) = Len(mapped)
        /\ \A i \in 1..Len(resp.lines) :
              resp.lines[i] = [j \in 1..Len(resp.header) |-> CsvCell(mapped[i], resp.header[j])]

\* C22 for requests that name no columns: the seven default columns
C22_DefaultColumns ==
    (rpc = "done" /\ req.endpoint = "export" /\ resp.kind = "csv" /\ req.columns = <<>>) =>
        /\ resp.header = Columns
        /\ \A i \in 1..Len(resp.lines) : resp.lines[i] = CsvLine(mapped[i])

\* A field that carries a value: neither missing, null nor the empty string
Populated(v) == v \notin {Undef, Null, ""}

FirstPopulated(vs) ==
    IF \E i \in 1..Len(vs) : Populated(vs[i])
    THEN vs[CHOOSE i \in 1..Len(vs) : Populated(vs[i]) /\ \A j \in 1..(i - 1) : ~Populated(vs[j])]
    ELSE ""

\* C23: the row's order_number is the explicit order-number field
\* (order_number, then orderNumber) when populated, otherwise the name,
\* otherwise the empty string; the name never wins over a populated number.
C23_OrderNumberFallback ==
    npc \in {"mapOrderToRow", "mapOrderNodeToRow", "fetchAllOrdersREST",
             "mapOrderNodeToRow (IST)", "fetchAllOrdersREST (IST)"} =>
        row.order_number =
            FirstPopulated(<<order.order_number, order.orderNumber, order.name>>)

\* C23 for the normalisers of server.js alone
C23_ServerOrderNumberFallback ==
    npc \in {"mapOrderToRow", "mapOrderNodeToRow", "fetchAllOrdersREST"} =>
        row.order_number =
            FirstPopulated(<<order.order_number, order.orderNumber, order.name>>)

\* The raw timestamp of an order and its display form in IST (UTC+05:30)
RawTimestamp(o) == FirstPopulated(<<o.createdAt, o.created_at>>)
DisplayIST(iso) ==
    CASE iso = "2024-01-02T03:04:05Z" ->
          <<"2","0","2","4","-","0","1","-","0","2"," ","0","8",":","3","4",":","0","5">>
      [] iso = "2024-01-31T20:00:00Z" ->
          <<"2","0","2","4","-","0","2","-","0","1"," ","0","1",":","3","0",":","0","0">>
      [] iso = "2023-12-31T23:59:59Z" ->
          <<"2","0","2","4","-","0","1","-","0","1"," ","0","5",":","2","9",":","5","9">>
      [] iso = "2024-02-28T19:00:00Z" ->
          <<"2","0","2","4","-","0","2","-","2","9"," ","0","0",":","3","0",":","0","0">>
      [] iso = "2023-02-28T18:30:00Z" ->
          <<"2","0","2","3","-","0","3","-","0","1"," ","0","0",":","0","0",":","0","0">>

FromFormattingRevision == npc \in {"mapOrderNodeToRow (IST)", "fetchAllOrdersREST (IST)"}

\* C24: a row of an order whose raw timestamp is missing or unparseable has
\* created_at '' and no created_at_raw; any other row has the valid raw
\* timestamp as created_at_raw and its display form as created_at; no row
\* carries a created_at_raw that is present but not a valid timestamp.
C24_RawTimestampValid ==
    FromFormattingRevision =>
        IF RawTimestamp(order) \in ValidDates
        THEN /\ row.created_at_raw = RawTimestamp(order)
             /\ row.created_at = DisplayIST(RawTimestamp(order))
        ELSE /\ row.created_at = <<>>
             /\ row.created_at_raw \in {Undef, Null, ""}

\* C24 for created_at alone: the display form of a valid raw timestamp, else ''
C24_DisplayedInIST ==
    FromFormattingRevision =>
        row.created_at = IF RawTimestamp(order) \in ValidDates
                         THEN DisplayIST(RawTimestamp(order)) ELSE <<>>

\* Neither URL of the order yields a utm value
NoUrlUtm(o) ==
    \A k \in UtmSet : LandingUtmOf(o)[k] = "" /\ ReferringUtmOf(o)[k] = ""

\* A list that holds no entry named after a utm field
ListWithoutUtm(a) ==
    /\ a.kind = "array"
    /\ \A i \in 1..Len(a.entries) :
          \A k \in UtmSet : ~Includes(ToLowerCase(Chars(a.entries[i].name)), Chars(k))

Mapped == npc \in {"mapOrderToRow", "mapOrderNodeToRow", "fetchAllOrdersREST"}

\* C25: an order whose URLs carry no utm tags, whose note_attributes is a list
\* without utm entries and whose attributes carry a utm tag gets that tag in
\* its row.
C25_AttributesConsulted ==
    (/\ Mapped
     /\ NoUrlUtm(order)
     /\ ListWithoutUtm(DataOf(order).note)
     /\ DataOf(order).attributes \in CustomAttrs \ {AbsentAttrs}) =>
        row.utm_source = "attr"

\* C25 for orders that have no note_attributes at all
C25_AttributesWhenNoNotes ==
    (/\ Mapped
     /\ NoUrlUtm(order)
     /\ DataOf(order).note = AbsentAttrs
     /\ DataOf(order).attributes \in CustomAttrs \ {AbsentAttrs}) =>
        row.utm_source = "attr"

\* The download has left the loop over the lines after writing the header
LoopLeft == dl.header /\ dl.pc # "stream"

RECURSIVE RowsExpected(_)
\* The number of rows the lines of a file give when each of them is
\* processed: none for a blank line, for a line that is not JSON and for null
RowsExpected(f) ==
    IF f = <<>> THEN 0
    ELSE (IF LineStep(f[1]) = "rows" /\ ~RowsThrow(f[1]) THEN Len(RowsOfLine(f[1])) ELSE 0)
         + RowsExpected(Tail(f))

\* C26: every line that is valid JSON, also null, a number, a string or an
\* array, leaves the stream running: the lines after it are processed and
\* the response is ended normally (unless the preview limit ended it first).
C26_ValidJsonKeepsStreaming ==
    LoopLeft =>
        /\ dl.pc = "done"
        /\ dl.resp.kind = "csv"
        /\ PreviewReached \/ Len(dl.resp.lines) = RowsExpected(file)

\* C26 for files without a null line
C26_NonNullJsonKeepsStreaming ==
    (LoopLeft /\ \A i \in 1..Len(file) : file[i] # NullLine) =>
        /\ dl.pc = "done"
        /\ dl.resp.kind = "csv"
        /\ PreviewReached \/ Len(dl.resp.lines) = RowsExpected(file)

\* A number line followed by an order: both give a row
C26_ScalarThenOrder ==
    /\ dl.pc = "done"
    /\ dl.preview = 0
    /\ dl.resp.kind = "csv"
    /\ file = <<ScalarLine, [kind |-> "bare", edges |-> <<NodeEdge(2)>>]>>
    /\ Len(dl.resp.lines) = 2

\* The request has a positive result cap within the modelled range
PositiveCap == req.endpoint \in {"orders", "export"} /\ req.cap \in 1..MaxCap

\* The page requests made so far, one after the other: the first page, then
\* each time the target of the previous response's next link
SequentialRequests ==
    /\ reqs # <<>> => reqs[1] = 1
    /\ \A i \in 2..Len(reqs) : reqs[i] = NextUrl(pages[reqs[i - 1]].link)

\* The loop of fetchAllOrdersREST is running: about to request a page, or
\* suspended until a page answers
Fetching == rpc \in {"fetch", "await fetch"}

\* C27: against an upstream whose every page holds an order, with a positive
\* cap, fetchAllOrdersREST makes at most cap page requests, one after the
\* other, each issued only once the previous one has answered and for the
\* target of that answer's next link, and then stops, also when the next
\* links form a cycle.
C27_TerminatesWithinCap ==
    /\ [](PositiveCap => (/\ Len(reqs) <= req.cap
                          /\ Len(reqs) = req.cap => rpc # "fetch"
                          /\ SequentialRequests))
    /\ [][reqs' # reqs => rpc = "fetch" /\ rpc' = "await fetch"]_vars
    /\ (PositiveCap /\ Fetching) ~> ~Fetching

\* A cycle of one-order pages followed until a cap of 3 stops the fetch
C27_Witness ==
    /\ PositiveCap
    /\ req.cap = 3
    /\ rpc = "count"
    /\ reqs = <<1, 2, 1>>
    /\ Len(mapped) = 3

\* The rows of the page q of size s of the sorted rows
RowsAt(rows, q, s) == SubSeq(rows, Min((q - 1) * s, Len(rows)) + 1, Min(q * s, Len(rows)))

\* C28: whatever the page and pageSize query strings, the answer's page is an
\* integer >= 1, its pageSize an integer in 1..1000, and its rows are the
\* sorted rows at the indices (page-1)*pageSize up to page*pageSize.
C28_PageWindow ==
    npc = "page window" =>
        /\ ~row.page.nan /\ row.page.n >= 1
        /\ ~row.pageSize.nan /\ row.pageSize.n \in 1..1000
        /\ row.orders = RowsAt(order.rows, row.page.n, row.pageSize.n)

\* C28 for query strings that are missing or start with a number
C28_NumericPageWindow ==
    (/\ npc = "page window"
     /\ ~ParseInt(QueryDefault(order.page, "1")).nan
     /\ ~ParseInt(QueryDefault(order.pageSize, "100")).nan) =>
        /\ ~row.page.nan /\ row.page.n >= 1
        /\ ~row.pageSize.nan /\ row.pageSize.n \in 1..1000
        /\ row.orders = RowsAt(order.rows, row.page.n, row.pageSize.n)

\* C28, second part, for a numeric pageSize: the pages 1, 2, ... hold every
\* sorted row exactly once, in order
C28_PagesPartitionRows ==
    (npc = "page window" /\ ~row.pageSize.nan /\ Len(order.rows) <= 3 * row.pageSize.n) =>
        LET at(q) == PageWindow(order.rows, IF q = 1 THEN "1" ELSE IF q = 2 THEN "2" ELSE "3",
                                order.pageSize).orders
        IN at(1) \o at(2) \o at(3) = order.rows

====
